---- MODULE Spec2Model ----
(***************************************************************************)
(* BioEvolve: the species registry (species_registry.py) and the world     *)
(* tick with its bookkeeping (main.py: SpatialGrid, World, Organism).      *)
(*                                                                         *)
(* The module holds several specifications over one set of variables:      *)
(*   SpecRegistry  the SpeciesRegistry API, its JSON file and a reader     *)
(*                 of that file running next to the writer;                *)
(*   Spec          World.update, one organism of the loop per step, with   *)
(*                 spawning between ticks; positions carry the x           *)
(*                 coordinate (the code treats y the same way), and the    *)
(*                 outcome of an organism's physiology (death, readiness   *)
(*                 to mate, movement) is drawn from all its outcomes;      *)
(*                 an exception that leaves update ends the run;           *)
(*   SpecPhysiology  health and energy of one organism under its own       *)
(*                 update and under what the organisms around it do to     *)
(*                 it (attack, conjugation) and it does to them;           *)
(*   SpecCells     the resources of a row of two cells under               *)
(*                 WorldCell.update, feeding organisms and decomposition;  *)
(*   SpecDiffusion WorldCell._diffuse_resource run by itself;              *)
(*   SpecClones    the line of one unicellular founder dividing;           *)
(*   SpecCooldown  the reproduction cooldown of one organism over the      *)
(*                 ticks, with the LOD sampling of large worlds;           *)
(*   SpecCaches    the biome adaptation cache and the predator/prey        *)
(*                 ratios, one key each, over 100 ticks;                   *)
(*   SpecGenome    Genome.reproduce of a genome with itself;               *)
(*   SpecAdaptation  the adaptation table and the value computed from it;  *)
(*   SpecMating    two unicellular organisms next to each other over the   *)
(*                 ticks, with their cooldowns and their offspring;        *)
(*   SpecCensus    the species bookkeeping of a world under add_organism   *)
(*                 and _remove_organism, for more organisms than Spec;     *)
(*   SpecDecay     dead organisms in the organism loop, ticks without end; *)
(*                 SpecDecayFair adds that the ticks go on and that the    *)
(*                 random draws of a tick are fair;                        *)
(*   SpecCalendar  year_cycle, season, year and climate_cycle of a world   *)
(*                 over the ticks;                                         *)
(*   SpecLod       the update_ratio World.update derives from the number   *)
(*                 of organisms.                                           *)
(* Each specification leaves the variables of the others unchanged.        *)
(***************************************************************************)
EXTENDS Integers, Sequences, FiniteSets, TLC

(***************************************************************************)
(* Bounds of the registry model.                                           *)
(***************************************************************************)
\* largest population value passed to update_species / reached by register
MaxPopulation == 2

\* Python's None for an optional species id
NoSpecies == 0
\* the species ids handed to the registry API
RegIds == {1, 2}

(***************************************************************************)
(* Bounds of the world model.                                              *)
(***************************************************************************)
\* organisms ever created (spawned or born)
MaxIds == 3
\* organisms spawned from outside; the others are born in the world
MaxFounders == 2
\* ticks run
MaxTicks == 2
\* largest value of World.max_organisms tried
MaxCap == 2
\* World.width
WorldWidth == 90

\* SpatialGrid.cell_size as World.__init__ sets it
SpatialCellSize == 50
\* upper end of Phenotype.vision_range
VisionRange == 50

OrganismTypes == {"UNICELLULAR", "PLANT", "HERBIVORE", "CARNIVORE", "OMNIVORE"}
\* the types spawn_random_organisms is asked for
SpawnTypes == {"UNICELLULAR", "PLANT", "OMNIVORE"}
\* where spawn_random_organisms puts a founder: uniform(0, width)
SpawnPositions == {WorldWidth}
\* velocity * delta_time of one tick: |velocity| <= max_speed <= 10, dt = 5
Moves == {-50, 0}
\* adaptation_score values an organism is built with
Scores == {1, 2}

VARIABLES
    \* the World object: organisms (list of organism ids), grid and
    \* organism_positions (its SpatialGrid), species_stats, species_registry,
    \* extinction_count, speciation_events, update_counter, max_organisms,
    \* predator_prey_ratios (whether the attribute exists)
    world,
    \* the Organism objects by id
    org,
    \* where World.update stands: "idle" between ticks, "loop" in the
    \* organism loop, "interact" in the loop over nearby organisms,
    \* "raised" when an exception left update
    pc,
    \* index of the list iterator of the organism loop
    idx,
    \* nearby_organisms of the organism being processed, and the index of
    \* the loop over it
    nearby,
    j,
    \* the loop variable of the organism loop, and the organism_count local
    organism,
    organism_count,
    \* World.organisms as it was when the organism loop of the tick started,
    \* and the organisms the loop variable has taken since
    loop_start,
    processed,
    \* SpeciesRegistry.species: species id -> SpeciesRecord (or absent)
    species,
    \* insertion order of the keys of SpeciesRegistry.species
    speciesKeys,
    \* the file SpeciesRegistry.save_file on disk
    save_file,
    \* position of save_registry inside its open / dump / close sequence
    savePc,
    \* chunks json.dump has still to write
    saveBuf,
    \* what a concurrent reader of the file last got: "none" before any read,
    \* then "absent", "document" or "torn"
    readerView,
    \* one Organism followed through its physiology: organism_type, health,
    \* energy, is_alive, ready_to_mate
    subject,
    \* where the subject stands in the tick: "pressure" inside its loop body
    \* between Organism.update and _apply_selection_pressure, "solo" and
    \* "own" in the rest of its loop body, "others" while other organisms
    \* are processed
    stage,
    \* organisms of the neighbourhood that dealt with it since its last update
    met,
    \* the WorldCell objects of World.grid, a row of cells: biome_type,
    \* altitude, resources and resource_capacity of each
    cells,
    \* cell updates, feedings and deposits so far
    cellSteps,
    \* the last diffusion step run by itself: its cell, its resource and the
    \* cells before it
    diffused,
    \* the organisms of the line of one founder, in order of birth
    lineage,
    \* the organism whose cooldown is followed
    breeder,
    \* whether the organism loop of the current tick has passed the organism
    turn,
    \* the value the last reproduction set the cooldown to, 0 before any
    cooldown_set,
    \* Organism.update calls that reached the decrement since then
    updates_since,
    \* world ticks whose organism loop passed the organism since then
    ticks_since,
    \* World.update_counter of the world whose caches are followed
    update_counter,
    \* World._biome_adaptation_cache[key]: the tick it was stored in
    biome_adaptation_cache,
    \* World.predator_prey_ratios[key]: the tick it was stored in
    predator_prey_ratios,
    \* the last value returned from a cache in the current tick
    last_read,
    \* the genome passed twice to Genome.reproduce
    genome,
    \* the genome Genome.reproduce returned
    child,
    \* the chromosomes deleted and duplicated and the anomaly of that call
    drawn,
    \* the organism and the cell of one call of _calculate_biome_adaptation
    adaptation_call,
    \* the value that call returned
    biome_adaptation,
    \* two unicellular organisms within mating distance of each other:
    \* is_alive, reproduction_cooldown, ready_to_mate and energy of each
    partners,
    \* the organism of the two the loop of the tick takes next, 0 between ticks
    partner_index,
    \* the parents of the offspring of the last loop body, each with the
    \* reproduction_cooldown it had when try_reproduce was called
    births,
    \* a second World, followed through its species bookkeeping only
    biosphere,
    \* the Organism objects of that world by id
    creatures,
    \* the organisms of a world followed from death to decomposition:
    \* organisms (World.organisms), is_alive by id, born (ids created)
    herd,
    \* the organism loop of World.update: running, sampled (update_ratio < 1),
    \* list (the sample) and index of its iterator
    sweep,
    \* the calendar of a World: year_cycle and climate_cycle (in seconds),
    \* season, year, season_changes (season-change milestones emitted)
    calendar,
    \* what has happened since construction: ticks run, wraps of year_cycle
    elapsed,
    \* one computation of the level of detail: organism_count and update_ratio
    lod,
    \* the plants of a bed, each with its genome and its phenotype
    bed

regVars == <<species, speciesKeys, save_file, savePc, saveBuf, readerView>>

worldVars ==
    <<world, org, pc, idx, nearby, j, organism, organism_count, loop_start,
      processed>>

physVars == <<subject, stage, met>>

cellVars == <<cells, cellSteps, diffused>>

cloneVars == <<lineage>>

cooldownVars == <<breeder, turn, cooldown_set, updates_since, ticks_since>>

cacheVars ==
    <<update_counter, biome_adaptation_cache, predator_prey_ratios, last_read>>

genomeVars == <<genome, child, drawn>>

adaptationVars == <<adaptation_call, biome_adaptation>>

matingVars == <<partners, partner_index, births>>

censusVars == <<biosphere, creatures>>

decayVars == <<herd, sweep>>

calendarVars == <<calendar, elapsed>>

lodVars == <<lod>>

bedVars == <<bed>>

vars == <<world, org, pc, idx, nearby, j, organism, organism_count,
          loop_start, processed,
          species, speciesKeys, save_file, savePc, saveBuf, readerView,
          subject, stage, met, cells, cellSteps, diffused, lineage,
          breeder, turn, cooldown_set, updates_since, ticks_since,
          update_counter, biome_adaptation_cache, predator_prey_ratios,
          last_read, genome, child, drawn, adaptation_call,
          biome_adaptation,
          partners, partner_index, births,
          biosphere, creatures,
          herd, sweep,
          calendar, elapsed,
          lod,
          bed>>

\* what the actions of one specification leave alone
outsideWorld ==
    <<regVars, physVars, cellVars, cloneVars,
      cooldownVars, cacheVars, genomeVars, adaptationVars,
      matingVars, censusVars, decayVars, calendarVars,
      lodVars, bedVars>>
outsideRegistry ==
    <<worldVars, physVars, cellVars, cloneVars,
      cooldownVars, cacheVars, genomeVars, adaptationVars,
      matingVars, censusVars, decayVars, calendarVars,
      lodVars, bedVars>>
outsidePhysiology ==
    <<worldVars, regVars, cellVars, cloneVars,
      cooldownVars, cacheVars, genomeVars, adaptationVars,
      matingVars, censusVars, decayVars, calendarVars,
      lodVars, bedVars>>
outsideCells ==
    <<worldVars, regVars, physVars, cloneVars,
      cooldownVars, cacheVars, genomeVars, adaptationVars,
      matingVars, censusVars, decayVars, calendarVars,
      lodVars, bedVars>>
outsideClones ==
    <<worldVars, regVars, physVars, cellVars,
      cooldownVars, cacheVars, genomeVars, adaptationVars,
      matingVars, censusVars, decayVars, calendarVars,
      lodVars, bedVars>>
outsideCooldown ==
    <<worldVars, regVars, physVars, cellVars,
      cloneVars, cacheVars, genomeVars, adaptationVars,
      matingVars, censusVars, decayVars, calendarVars,
      lodVars, bedVars>>
outsideCaches ==
    <<worldVars, regVars, physVars, cellVars,
      cloneVars, cooldownVars, genomeVars, adaptationVars,
      matingVars, censusVars, decayVars, calendarVars,
      lodVars, bedVars>>
outsideGenome ==
    <<worldVars, regVars, physVars, cellVars,
      cloneVars, cooldownVars, cacheVars, adaptationVars,
      matingVars, censusVars, decayVars, calendarVars,
      lodVars, bedVars>>
outsideAdaptation ==
    <<worldVars, regVars, physVars, cellVars,
      cloneVars, cooldownVars, cacheVars, genomeVars,
      matingVars, censusVars, decayVars, calendarVars,
      lodVars, bedVars>>
outsideMating ==
    <<worldVars, regVars, physVars, cellVars,
      cloneVars, cooldownVars, cacheVars, genomeVars,
      adaptationVars, censusVars, decayVars, calendarVars,
      lodVars, bedVars>>
outsideCensus ==
    <<worldVars, regVars, physVars, cellVars,
      cloneVars, cooldownVars, cacheVars, genomeVars,
      adaptationVars, matingVars, decayVars, calendarVars,
      lodVars, bedVars>>
outsideDecay ==
    <<regVars, worldVars, physVars, cellVars,
      cloneVars, cooldownVars, cacheVars, genomeVars,
      adaptationVars, matingVars, censusVars, calendarVars,
      lodVars, bedVars>>
outsideCalendar ==
    <<regVars, worldVars, physVars, cellVars,
      cloneVars, cooldownVars, cacheVars, genomeVars,
      adaptationVars, matingVars, censusVars, decayVars,
      lodVars, bedVars>>
outsideLod ==
    <<regVars, worldVars, physVars, cellVars,
      cloneVars, cooldownVars, cacheVars, genomeVars,
      adaptationVars, matingVars, censusVars, decayVars,
      calendarVars, bedVars>>

outsideBed ==
    <<regVars, worldVars, physVars, cellVars,
      cloneVars, cooldownVars, cacheVars, genomeVars,
      adaptationVars, matingVars, censusVars, decayVars,
      calendarVars, lodVars>>

(***************************************************************************)
(* species_registry.py                                                     *)
(***************************************************************************)
NoRecord == [present |-> FALSE]

\* SpeciesRecord.__init__: population 1, not extinct
SpeciesRecord(species_id, parent_species_id) ==
    [present           |-> TRUE,
     species_id        |-> species_id,
     parent_species_id |-> parent_species_id,
     population_count  |-> 1,
     max_population    |-> 1,
     extinct           |-> FALSE,
     child_species     |-> <<>>]

\* a faulty update_population that derives the mark from the count
update_population_resurrects(record, count) ==
    [record EXCEPT !.population_count = count,
                   !.max_population = IF count > @ THEN count ELSE @,
                   !.extinct = (count = 0)]

\* SpeciesRecord.update_population
update_population(record, count) ==
    [record EXCEPT !.population_count = count,
                   !.max_population = IF count > @ THEN count ELSE @,
                   !.extinct = IF count = 0 /\ ~record.extinct THEN TRUE ELSE @]

InSeq(x, s) == \E i \in 1..Len(s) : s[i] = x

\* SpeciesRecord.add_child_species
add_child_species(record, child_id) ==
    IF InSeq(child_id, record.child_species)
    THEN record
    ELSE [record EXCEPT !.child_species = Append(@, child_id)]

\* SpeciesRecord.to_dict: one JSON object per record
to_dict(record) ==
    <<"entry", record.species_id, record.parent_species_id,
      record.population_count, record.max_population, record.extinct,
      record.child_species>>

RECURSIVE DumpEntries(_, _)
DumpEntries(recs, keys) ==
    IF keys = <<>> THEN <<>>
    ELSE <<to_dict(recs[Head(keys)])>> \o DumpEntries(recs, Tail(keys))

\* the chunks json.dump writes for the whole registry, in key order
Serialize(recs, keys) == <<(<<"{">>)>> \o DumpEntries(recs, keys) \o <<(<<"}">>)>>

\* a document json.load accepts: opened and closed
IsCompleteDocument(data) ==
    /\ Len(data) >= 2
    /\ data[1] = <<"{">>
    /\ data[Len(data)] = <<"}">>

\* SpeciesRegistry.register_species
register_species(species_id, parent_species_id) ==
    /\ savePc = "idle"
    /\ IF species[species_id].present
       THEN /\ species[species_id].population_count < MaxPopulation
            /\ species' = [species EXCEPT ![species_id] =
                              update_population(@, @.population_count + 1)]
            /\ UNCHANGED <<speciesKeys, savePc, saveBuf>>
       ELSE LET added == [species EXCEPT ![species_id] =
                              SpeciesRecord(species_id, parent_species_id)]
                linked == IF parent_species_id # NoSpecies
                             /\ added[parent_species_id].present
                          THEN [added EXCEPT ![parent_species_id] =
                                    add_child_species(@, species_id)]
                          ELSE added
                keys == Append(speciesKeys, species_id)
            IN  /\ species' = linked
                /\ speciesKeys' = keys
                \* save_registry()
                /\ savePc' = "open"
                /\ saveBuf' = Serialize(linked, keys)
    /\ UNCHANGED <<save_file, readerView>>
    /\ UNCHANGED outsideRegistry

\* SpeciesRegistry.update_species(species_id, population=..., adaptation=...)
\* population = -1 stands for the default None
update_species(species_id, population, adaptation) ==
    /\ savePc = "idle"
    /\ IF ~species[species_id].present
       THEN UNCHANGED <<species, savePc, saveBuf>>
       ELSE LET rec == IF population # -1
                       THEN update_population(species[species_id], population)
                       ELSE species[species_id]
                upd == [species EXCEPT ![species_id] = rec]
            IN  /\ species' = upd
                /\ IF population = 0 \/ adaptation
                   THEN /\ savePc' = "open"
                        /\ saveBuf' = Serialize(upd, speciesKeys)
                   ELSE UNCHANGED <<savePc, saveBuf>>
    /\ UNCHANGED <<speciesKeys, save_file, readerView>>
    /\ UNCHANGED outsideRegistry

\* save_registry: open(self.save_file, 'w') truncates the file in place
SaveOpen ==
    /\ savePc = "open"
    /\ save_file' = [exists |-> TRUE, data |-> <<>>]
    /\ savePc' = "dump"
    /\ UNCHANGED <<species, speciesKeys, saveBuf, readerView>>
    /\ UNCHANGED outsideRegistry

\* save_registry: json.dump writes the document chunk after chunk
SaveDump ==
    /\ savePc = "dump"
    /\ saveBuf # <<>>
    /\ save_file' = [save_file EXCEPT !.data = Append(@, Head(saveBuf))]
    /\ saveBuf' = Tail(saveBuf)
    /\ UNCHANGED <<species, speciesKeys, savePc, readerView>>
    /\ UNCHANGED outsideRegistry

\* save_registry: leaving the with-block closes the file
SaveClose ==
    /\ savePc = "dump"
    /\ saveBuf = <<>>
    /\ savePc' = "idle"
    /\ UNCHANGED <<species, speciesKeys, save_file, saveBuf, readerView>>
    /\ UNCHANGED outsideRegistry

\* another thread or process opens the file and parses all of it, as
\* load_registry does: no file, a document json.load accepts, or a text it
\* rejects
ReaderRead ==
    /\ readerView' = IF ~save_file.exists THEN "absent"
                      ELSE IF IsCompleteDocument(save_file.data) THEN "document"
                      ELSE "torn"
    /\ UNCHANGED <<species, speciesKeys, save_file, savePc, saveBuf>>
    /\ UNCHANGED outsideRegistry

(***************************************************************************)
(* main.py: SpatialGrid                                                    *)
(***************************************************************************)
Max(a, b) == IF a >= b THEN a ELSE b
Min(a, b) == IF a <= b THEN a ELSE b
Abs(a) == IF a >= 0 THEN a ELSE -a

\* Python's int(a / b) for b > 0: truncation toward zero
TruncDiv(a, b) == IF a >= 0 THEN a \div b ELSE -((-a) \div b)

RECURSIVE RemoveFirst(_, _)
\* list.remove(x): drops the first occurrence
RemoveFirst(s, x) ==
    IF s = <<>> THEN <<>>
    ELSE IF Head(s) = x THEN Tail(s)
    ELSE <<Head(s)>> \o RemoveFirst(Tail(s), x)

\* SpatialGrid.__init__: grid_width = width // cell_size + 1
grid_width == WorldWidth \div SpatialCellSize + 1
Buckets == 0..(grid_width - 1)
\* an organism id missing from SpatialGrid.organism_positions
NoBucket == -1

\* SpatialGrid._get_grid_position
get_grid_position(position) == TruncDiv(position, SpatialCellSize)

\* SpatialGrid.add_organism
SpatialGrid_add_organism(w, oh, id) ==
    LET gx == get_grid_position(oh[id].position)
    IN  IF gx \in Buckets
        THEN [w EXCEPT !.grid[gx] = Append(@, id),
                       !.organism_positions[id] = gx]
        ELSE w

\* a faulty remove_organism that leaves the grid as it is
SpatialGrid_remove_organism_skipped(w, id) == w

\* SpatialGrid.remove_organism
SpatialGrid_remove_organism(w, id) ==
    IF w.organism_positions[id] # NoBucket
    THEN LET gx == w.organism_positions[id]
         IN  [w EXCEPT !.grid = IF gx \in Buckets /\ InSeq(id, w.grid[gx])
                                THEN [@ EXCEPT ![gx] = RemoveFirst(@, id)]
                                ELSE @,
                       !.organism_positions[id] = NoBucket]
    ELSE w

\* SpatialGrid.update_organism_position
update_organism_position(w, oh, id) ==
    IF w.organism_positions[id] # NoBucket
    THEN LET old == w.organism_positions[id]
             new == get_grid_position(oh[id].position)
             g1  == IF old \in Buckets /\ InSeq(id, w.grid[old])
                    THEN [w.grid EXCEPT ![old] = RemoveFirst(@, id)]
                    ELSE w.grid
         IN  IF old = new THEN w
             ELSE IF new \in Buckets
             THEN [w EXCEPT !.grid = [g1 EXCEPT ![new] = Append(@, id)],
                            !.organism_positions[id] = new]
             ELSE [w EXCEPT !.grid = g1,
                            !.organism_positions[id] = NoBucket]
    ELSE w

\* the organisms of one bucket that are alive and within radius
BucketHits(w, oh, gx, position, radius) ==
    IF gx \in Buckets
    THEN SelectSeq(w.grid[gx],
                   LAMBDA o : oh[o].is_alive
                              /\ Abs(position - oh[o].position) <= radius)
    ELSE <<>>

RECURSIVE ScanBuckets(_, _, _, _, _, _)
ScanBuckets(w, oh, gx, last, position, radius) ==
    IF gx > last THEN <<>>
    ELSE BucketHits(w, oh, gx, position, radius)
         \o ScanBuckets(w, oh, gx + 1, last, position, radius)

\* SpatialGrid.get_nearby_organisms
SpatialGrid_get_nearby_organisms(w, oh, position, radius) ==
    LET center == get_grid_position(position)
        cell_radius == TruncDiv(radius, SpatialCellSize) + 1
    IN  ScanBuckets(w, oh, center - cell_radius, center + cell_radius,
                    position, radius)

\* SpatialGrid.clear
SpatialGrid_clear(w) ==
    [w EXCEPT !.grid = [b \in Buckets |-> <<>>],
              !.organism_positions = [i \in 1..MaxIds |-> NoBucket]]

\* SpatialGrid.get_all_organisms, as a set
InGrid(w, id) == \E b \in Buckets : InSeq(id, w.grid[b])

(***************************************************************************)
(* main.py: World                                                          *)
(***************************************************************************)
NoEntry == [present |-> FALSE, count |-> 0, is_extinct |-> FALSE]

\* World._remove_organism
remove_organism(w, oh, id) ==
    IF InSeq(id, w.organisms)
    THEN LET w1 == [w EXCEPT !.organisms = RemoveFirst(@, id)]
             w2 == SpatialGrid_remove_organism(w1, id)
             sp == oh[id].species_id
         IN  IF oh[id].is_alive
             THEN LET w3 == [w2 EXCEPT
                               !.species_stats[oh[id].organism_type] = @ - 1]
                  IN  IF w3.species_registry[sp].present
                      THEN LET n == w3.species_registry[sp].count - 1
                           IN  IF n <= 0
                               THEN [w3 EXCEPT
                                       !.species_registry[sp].count = n,
                                       !.species_registry[sp].is_extinct = TRUE,
                                       !.extinction_count = @ + 1]
                               ELSE [w3 EXCEPT !.species_registry[sp].count = n]
                      ELSE w3
             ELSE w2
    ELSE w

RECURSIVE InsertByScore(_, _, _)
\* place x after every element whose key is not larger (sorted is stable)
InsertByScore(oh, sorted, x) ==
    IF sorted = <<>> THEN <<x>>
    ELSE IF oh[Head(sorted)].adaptation_score <= oh[x].adaptation_score
    THEN <<Head(sorted)>> \o InsertByScore(oh, Tail(sorted), x)
    ELSE <<x>> \o sorted

RECURSIVE SortedByScore(_, _)
\* sorted(list, key=adaptation_score), built from the back so that equal
\* keys keep their list order
SortedByScore(oh, s) ==
    IF s = <<>> THEN <<>>
    ELSE LET rest == SortedByScore(oh, SubSeq(s, 1, Len(s) - 1))
         IN  InsertByScore(oh, rest, s[Len(s)])

RECURSIVE RemoveAll(_, _, _)
RemoveAll(w, oh, ids) ==
    IF ids = <<>> THEN w
    ELSE RemoveAll(remove_organism(w, oh, Head(ids)), oh, Tail(ids))

\* World._cull_weakest_organisms
cull_weakest_organisms(w, oh, count) ==
    IF Len(w.organisms) <= count THEN w
    ELSE LET alive == SelectSeq(w.organisms, LAMBDA o : oh[o].is_alive)
             ranked == SortedByScore(oh, alive)
             organisms_to_cull == SubSeq(ranked, 1, Min(count, Len(ranked)))
         IN  RemoveAll(w, oh, organisms_to_cull)

\* World.add_organism; the Organism object is oh[id]
add_organism(w, oh, id) ==
    LET w1 == IF Len(w.organisms) >= w.max_organisms
              THEN cull_weakest_organisms(w, oh, 1)
              ELSE w
        w2 == [w1 EXCEPT !.organisms = Append(@, id)]
        w3 == SpatialGrid_add_organism(w2, oh, id)
        w4 == [w3 EXCEPT !.species_stats[oh[id].organism_type] = @ + 1]
        sp == oh[id].species_id
    IN  IF ~w4.species_registry[sp].present
        THEN [w4 EXCEPT
                !.species_registry[sp] =
                    [present |-> TRUE, count |-> 1, is_extinct |-> FALSE],
                !.speciation_events =
                    IF oh[id].parent_ids # <<>> /\ oh[id].generation > 1
                    THEN @ + 1 ELSE @]
        ELSE [w4 EXCEPT !.species_registry[sp].count = @ + 1]

\* World._rebuild_spatial_grid
rebuild_spatial_grid(w, oh) ==
    LET RECURSIVE AddAlive(_, _)
        AddAlive(g, ids) ==
            IF ids = <<>> THEN g
            ELSE AddAlive(IF oh[Head(ids)].is_alive
                          THEN SpatialGrid_add_organism(g, oh, Head(ids))
                          ELSE g,
                          Tail(ids))
    IN  AddAlive(SpatialGrid_clear(w), w.organisms)

\* World._collect_statistics: the per-type counts of live organisms
collect_statistics(w, oh) ==
    [w EXCEPT !.species_stats =
        [t \in OrganismTypes |->
            Cardinality({i \in 1..Len(w.organisms) :
                            /\ oh[w.organisms[i]].is_alive
                            /\ oh[w.organisms[i]].organism_type = t})]]

\* World.get_nearby_organisms(organism): vision range, the organism itself
\* filtered out
get_nearby_organisms(w, oh, id) ==
    SelectSeq(SpatialGrid_get_nearby_organisms(w, oh, oh[id].position,
                                               VisionRange),
              LAMBDA o : o # id)

(***************************************************************************)
(* main.py: Organism                                                       *)
(***************************************************************************)
\* Organism.__init__: alive, not ready to mate; species_id defaults to the
\* organism's own id
Organism(id, position, organism_type, generation, parent_ids, species_id, score) ==
    [id |-> id, position |-> position, organism_type |-> organism_type,
     generation |-> generation, parent_ids |-> parent_ids,
     species_id |-> species_id, adaptation_score |-> score,
     is_alive |-> TRUE, ready_to_mate |-> FALSE]

\* Organism.update, the part the world's bookkeeping sees: ready_to_mate is
\* set, then the death test runs, then the position moves and is clamped.
\* readiness, death and displacement follow from health, energy and age
Organism_update(o, ready, dies, move) ==
    [o EXCEPT !.ready_to_mate = ready,
              !.is_alive = ~dies,
              !.position = Max(0, Min(WorldWidth, o.position + move))]

\* offsets of a newborn from its parent, by reproduction path
ConjugationOffsets == {3}
AsexualOffsets == {4}
SelfPollinationOffsets == {-15, 15}
SexualOffsets == {3}

\* what try_reproduce gives back
ReturnsNone == [kind |-> "none"]
Raises == [kind |-> "raise"]
Returns(offspring) == [kind |-> "offspring", offspring |-> offspring]

\* Python's None for an optional organism
NoOrganism == 0

\* Organism._bacterial_conjugation: the offspring
bacterial_conjugation(oh, self, mate, id) ==
    {Organism(id, oh[self].position + off, oh[self].organism_type,
              oh[self].generation + 1, <<self, mate>>, sp, sc) :
        off \in ConjugationOffsets, sp \in {oh[self].species_id, id},
        sc \in Scores}

\* Organism._asexual_reproduction: the offspring
asexual_reproduction(oh, self, id) ==
    {Organism(id, oh[self].position + off, oh[self].organism_type,
              oh[self].generation + 1, <<self>>, sp, sc) :
        off \in AsexualOffsets, sp \in {oh[self].species_id, id},
        sc \in Scores}

\* Organism._self_pollination: the offspring
self_pollination(oh, self, id) ==
    {Organism(id, oh[self].position + off, oh[self].organism_type,
              oh[self].generation + 1, <<self>>, sp, sc) :
        off \in SelfPollinationOffsets, sp \in {oh[self].species_id, id},
        sc \in Scores}

\* Organism._sexual_reproduction: the offspring, born next to one parent,
\* of the species of one parent or of a new one
sexual_reproduction(oh, self, mate, id) ==
    {Organism(id, oh[near].position + off, oh[self].organism_type,
              Max(oh[self].generation, oh[mate].generation) + 1,
              <<self, mate>>, sp, sc) :
        near \in {self, mate}, off \in SexualOffsets,
        sp \in {oh[self].species_id, oh[mate].species_id, id},
        sc \in Scores}

\* Organism.try_reproduce(mate): every result its random draws and its
\* energy test allow.  For an omnivore the mate-quality expression reads
\* mate.phenotype.metabolism_efficiency, which Phenotype does not define
try_reproduce(oh, self, mate) ==
    LET id == Len(oh) + 1
        t == oh[self].organism_type
        mate_ok == /\ mate # NoOrganism
                   /\ oh[mate].ready_to_mate
                   /\ oh[mate].organism_type = t
        born(set) == IF id <= MaxIds THEN {Returns(o) : o \in set} ELSE {}
    IN  IF ~oh[self].ready_to_mate THEN {ReturnsNone}
        ELSE {ReturnsNone} \cup
             CASE t = "UNICELLULAR" ->
                     (IF mate # NoOrganism
                      THEN born(bacterial_conjugation(oh, self, mate, id))
                      ELSE {})
                     \cup born(asexual_reproduction(oh, self, id))
               [] t = "PLANT" ->
                     (IF mate_ok
                      THEN born(sexual_reproduction(oh, self, mate, id))
                      ELSE {})
                     \cup born(self_pollination(oh, self, id))
               [] t = "OMNIVORE" ->
                     IF mate_ok THEN {Raises} ELSE {}
               [] OTHER ->
                     IF mate_ok
                     THEN born(sexual_reproduction(oh, self, mate, id))
                     ELSE {}

(***************************************************************************)
(* main.py: World.update and its callers                                   *)
(***************************************************************************)
\* World.__init__, with max_organisms set to cap
NewWorld(cap) ==
    /\ world = [organisms |-> <<>>,
                grid |-> [b \in Buckets |-> <<>>],
                organism_positions |-> [i \in 1..MaxIds |-> NoBucket],
                species_stats |-> [t \in OrganismTypes |-> 0],
                species_registry |-> [s \in 1..MaxIds |-> NoEntry],
                extinction_count |-> 0,
                speciation_events |-> 0,
                update_counter |-> 0,
                predator_prey_ratios |-> FALSE,
                max_organisms |-> cap]
    /\ org = <<>>
    /\ pc = "idle"
    /\ idx = 0
    /\ organism = NoOrganism
    /\ organism_count = 0
    /\ nearby = <<>>
    /\ j = 0
    /\ loop_start = <<>>
    /\ processed = <<>>

\* the result of a try_reproduce call of the organism loop: an offspring
\* goes through add_organism, an exception leaves update
Reproduced(w, oh, result) ==
    IF result.kind = "offspring"
    THEN LET oh2 == Append(oh, result.offspring)
         IN  /\ org' = oh2
             /\ world' = add_organism(w, oh2, result.offspring.id)
    ELSE /\ org' = oh
         /\ world' = w

\* World.spawn_random_organisms, one organism
Spawn ==
    /\ pc = "idle"
    /\ Len(org) < MaxIds
    /\ Cardinality({i \in 1..Len(org) : org[i].parent_ids = <<>>}) < MaxFounders
    /\ \E t \in SpawnTypes, p \in SpawnPositions, sc \in Scores :
         LET id == Len(org) + 1
             oh == Append(org, Organism(id, p, t, 1, <<>>, id, sc))
         IN  /\ org' = oh
             /\ world' = add_organism(world, oh, id)
    /\ UNCHANGED <<pc, idx, organism, organism_count, nearby, j>>
    /\ UNCHANGED <<loop_start, processed>>
    /\ UNCHANGED outsideWorld

\* World.update up to the organism loop: the counter, the two rebuilds
BeginTick ==
    /\ pc = "idle"
    /\ world.update_counter < MaxTicks
    /\ LET n == Len(world.organisms)
           w1 == [world EXCEPT !.update_counter = @ + 1]
           w2 == IF w1.update_counter % 100 = 0
                 THEN rebuild_spatial_grid(w1, org) ELSE w1
           w3 == IF w2.update_counter % Max(1, Min(10, n \div 500)) = 0
                 THEN rebuild_spatial_grid(w2, org) ELSE w2
       IN  /\ world' = w3
           /\ organism_count' = n
    /\ pc' = "loop"
    /\ idx' = 0
    /\ loop_start' = world.organisms
    /\ processed' = <<>>
    /\ UNCHANGED <<org, organism, nearby, j>>
    /\ UNCHANGED outsideWorld

\* the loop body for a dead organism: decomposition with probability
\* 0.1 * delta_time
StepDead ==
    /\ pc = "loop"
    /\ idx < Len(world.organisms)
    /\ LET id == world.organisms[idx + 1]
       IN  /\ ~org[id].is_alive
           /\ \E decomposed \in BOOLEAN :
                world' = IF decomposed THEN remove_organism(world, org, id)
                         ELSE world
           /\ organism' = id
           /\ processed' = Append(processed, id)
    /\ idx' = idx + 1
    /\ UNCHANGED <<org, pc, organism_count, nearby, j, loop_start>>
    /\ UNCHANGED outsideWorld

\* plant_mates / has_potential_mates of the loop body
has_potential_mates(oh, id, near) ==
    \E k \in 1..Len(near) :
        /\ oh[near[k]].organism_type = "PLANT"
        /\ oh[near[k]].ready_to_mate
        /\ Abs(oh[id].position - oh[near[k]].position) < 15

\* the loop body for a live organism up to the loop over its neighbours:
\* grid position, neighbours, Organism.update, reproduction without partner
StepAlive ==
    /\ pc = "loop"
    /\ idx < Len(world.organisms)
    /\ LET id == world.organisms[idx + 1]
       IN  /\ org[id].is_alive
           /\ organism' = id
           /\ processed' = Append(processed, id)
           /\ LET w1 == update_organism_position(world, org, id)
                  near == get_nearby_organisms(w1, org, id)
              IN  /\ nearby' = near
                  /\ \E ready \in BOOLEAN, dies \in BOOLEAN, move \in Moves :
                       LET oh == [org EXCEPT ![id] =
                                     Organism_update(@, ready, dies, move)]
                           alone ==
                               /\ oh[id].ready_to_mate
                               /\ \/ oh[id].organism_type = "UNICELLULAR"
                                  \/ /\ oh[id].organism_type = "PLANT"
                                     /\ ~has_potential_mates(oh, id, near)
                       IN  \E result \in IF alone
                                         THEN try_reproduce(oh, id, NoOrganism)
                                         ELSE {ReturnsNone} :
                               Reproduced(w1, oh, result)
    /\ pc' = "interact"
    /\ j' = 0
    /\ UNCHANGED <<idx, organism_count, loop_start>>
    /\ UNCHANGED outsideWorld

\* one round of the loop over nearby_organisms: sexual reproduction when
\* both are ready, of one type and closer than 6; otherwise predation when
\* closer than 2, which reads self.predator_prey_ratios, an attribute that
\* exists only once a predation has been met on a tick that is a multiple
\* of 10
Interact ==
    /\ pc = "interact"
    /\ j < Len(nearby)
    /\ LET other == nearby[j + 1]
           dist == Abs(org[organism].position - org[other].position)
           mating == /\ org[other].is_alive
                     /\ dist < 6
                     /\ org[organism].ready_to_mate
                     /\ org[other].ready_to_mate
                     /\ org[organism].organism_type = org[other].organism_type
           predation ==
               /\ org[other].is_alive
               /\ ~mating
               /\ dist < 2
               /\ org[organism].organism_type \in {"CARNIVORE", "OMNIVORE"}
               /\ \/ org[other].organism_type \in {"HERBIVORE", "UNICELLULAR"}
                  \/ /\ org[organism].organism_type = "OMNIVORE"
                     /\ org[other].organism_type = "PLANT"
       IN  IF predation
           THEN LET w1 == IF world.update_counter % 10 = 0
                          THEN [world EXCEPT !.predator_prey_ratios = TRUE]
                          ELSE world
                IN  /\ world' = w1
                    /\ org' = org
                    /\ pc' = IF w1.predator_prey_ratios THEN pc ELSE "raised"
           ELSE \E result \in IF mating
                              THEN try_reproduce(org, organism, other)
                              ELSE {ReturnsNone} :
                    /\ Reproduced(world, org, result)
                    /\ pc' = IF result.kind = "raise" THEN "raised" ELSE pc
    /\ j' = j + 1
    /\ UNCHANGED <<idx, organism, organism_count, nearby>>
    /\ UNCHANGED <<loop_start, processed>>
    /\ UNCHANGED outsideWorld

\* the loop over nearby_organisms is over: next organism of the list
InteractDone ==
    /\ pc = "interact"
    /\ j >= Len(nearby)
    /\ pc' = "loop"
    /\ idx' = idx + 1
    /\ UNCHANGED <<world, org, organism, organism_count, nearby, j>>
    /\ UNCHANGED <<loop_start, processed>>
    /\ UNCHANGED outsideWorld

\* the list iterator is exhausted: the statistics pass, and update returns
EndTick ==
    /\ pc = "loop"
    /\ idx >= Len(world.organisms)
    /\ world' = IF world.update_counter % Max(1, organism_count \div 1000) = 0
                THEN collect_statistics(world, org) ELSE world
    /\ pc' = "idle"
    /\ loop_start' = <<>>
    /\ processed' = <<>>
    /\ UNCHANGED <<org, idx, organism, organism_count, nearby, j>>
    /\ UNCHANGED outsideWorld

(***************************************************************************)
(* main.py: health and energy of one organism                              *)
(***************************************************************************)
\* Phenotype.energy_capacity of the subject
EnergyCapacity == 90
\* organisms that can deal with the subject between two of its updates
MaxNeighbours == 4
\* the amounts below are taken with delta_time = 10
\* energy_consumption = metabolism_rate * delta_time, metabolism_rate = 0.3
EnergyConsumption == 3
\* hunger_damage = delta_time * 5
HungerDamage == 50
\* health_recovery = delta_time * immune_strength, immune_strength = 0.5;
\* also the health impact and the health bonus of the selection pressure
HealthStep == 5
\* energy_penalty of the selection pressure
EnergyPenalty == 3
\* energy_bonus of the selection pressure
EnergyBonus == 6
\* energy_capacity * 0.2 * size_factor * complexity_factor of a unicellular
\* organism
ReproductionCost == 30
\* attack_power * (0.5 + 0.5 * strength) * (1 - defense_power / 15): at most
\* 10 * 1.5 * 1
Damages == {5, 15}
\* energy gained from sunlight or from a kill
EnergyGains == {6, 30}

\* no organism constructed yet
NoSubject ==
    [organism_type |-> "NONE", health |-> 0, energy |-> 0,
     is_alive |-> FALSE, ready_to_mate |-> FALSE]

\* Organism.__init__: the physiological state
NewSubject(organism_type) ==
    [organism_type |-> organism_type, health |-> 100,
     energy |-> EnergyCapacity \div 2,
     is_alive |-> TRUE, ready_to_mate |-> FALSE]

\* Organism.update: metabolism, waste, dehydration, hunger, recovery,
\* readiness to mate, death.  waste and thirst are the two health impacts
\* (0 when the condition is not met), well says hydration and waste allow
\* recovery, mature says maturity, cooldown and offspring count allow
\* mating, aged says age passed the lifespan
update_physiology(o, waste, thirst, well, mature, aged) ==
    LET e1 == Max(0, o.energy - EnergyConsumption)
        h1 == IF waste > 0 THEN Max(0, o.health - waste) ELSE o.health
        h2 == IF thirst > 0 THEN Max(0, h1 - thirst) ELSE h1
        h3 == IF 10 * e1 < EnergyCapacity
              THEN Max(0, h2 - HungerDamage) ELSE h2
        h4 == IF 2 * e1 > EnergyCapacity /\ well /\ h3 < 100
              THEN Min(100, h3 + HealthStep) ELSE h3
    IN  [o EXCEPT !.energy = e1,
                  !.health = h4,
                  !.ready_to_mate = /\ mature
                                    /\ 10 * e1 > 7 * EnergyCapacity
                                    /\ h4 > 70,
                  !.is_alive = ~(h4 <= 0 \/ aged)]

\* Organism.interact_with_environment: the energy of photosynthesis (the
\* herbivore's grazing is clamped the same way)
interact_with_environment(o, energy_gained) ==
    IF o.organism_type \in {"UNICELLULAR", "PLANT"}
    THEN [o EXCEPT !.energy = Min(EnergyCapacity, @ + energy_gained)]
    ELSE o

\* Organism._attack, the target's side
attack_target(target, effective_damage) ==
    [target EXCEPT !.health = @ - Max(0, effective_damage)]

\* Organism._attack, the attacker's side: energy when the target's health is
\* at or below 0 after the blow
attack_self(o, target_health, energy_gained) ==
    IF target_health <= 0
    THEN [o EXCEPT !.energy = Min(EnergyCapacity, @ + energy_gained)]
    ELSE o

\* World._apply_selection_pressure: biome is "hostile", "neutral" or
\* "favourable", crowd is "crowded", "normal" or "rare"
apply_selection_pressure(o, biome, crowd) ==
    LET h == CASE biome = "hostile" -> Max(0, o.health - HealthStep)
               [] biome = "favourable" -> Min(100, o.health + HealthStep)
               [] OTHER -> o.health
        e == CASE crowd = "crowded" -> Max(0, o.energy - EnergyPenalty)
               [] crowd = "rare" /\ 10 * o.energy < 8 * EnergyCapacity ->
                      Min(EnergyCapacity, o.energy + EnergyBonus)
               [] OTHER -> o.energy
    IN  [o EXCEPT !.health = h, !.energy = e]

\* the parent's side of _asexual_reproduction
asexual_cost(o) == [o EXCEPT !.energy = @ - ReproductionCost]

\* _bacterial_conjugation: self pays 0.7 of the cost, mate 0.3
conjugation_cost_self(o) ==
    [o EXCEPT !.energy = @ - (7 * ReproductionCost) \div 10]

conjugation_cost_mate(mate) ==
    [mate EXCEPT !.energy = @ - (3 * ReproductionCost) \div 10]

InitPhysiology ==
    /\ subject = NoSubject
    /\ stage = "others"
    /\ met = 0

\* an organism is constructed
NewOrganism ==
    /\ subject = NoSubject
    /\ \E t \in {"UNICELLULAR", "OMNIVORE"} : subject' = NewSubject(t)
    /\ UNCHANGED <<stage, met>>
    /\ UNCHANGED outsidePhysiology

\* Organism.update of the live subject, which ends with
\* interact_with_environment (gain 0: the cell holds no sunlight or water)
UpdateSubject ==
    /\ subject.is_alive
    /\ stage \in {"solo", "own", "others"}
    /\ \E waste \in {0, 10}, thirst \in {0, 25}, well \in BOOLEAN,
          mature \in BOOLEAN, aged \in BOOLEAN, gain \in {0} \cup EnergyGains :
         LET o1 == update_physiology(subject, waste, thirst,
                                     well /\ waste = 0 /\ thirst = 0,
                                     mature, aged)
         IN  subject' = IF gain > 0 THEN interact_with_environment(o1, gain)
                        ELSE o1
    /\ stage' = "pressure"
    /\ met' = 0
    /\ UNCHANGED outsidePhysiology

\* World._apply_selection_pressure, which follows Organism.update
SelectionPressure ==
    /\ stage = "pressure"
    /\ \E biome \in {"hostile", "neutral", "favourable"},
          crowd \in {"crowded", "normal", "rare"} :
         subject' = apply_selection_pressure(subject, biome, crowd)
    /\ stage' = "solo"
    /\ UNCHANGED met
    /\ UNCHANGED outsidePhysiology

\* try_reproduce of a unicellular subject without mate, once in its loop
\* body: the readiness and energy tests, then _asexual_reproduction
Asexual ==
    /\ stage = "solo"
    /\ subject.organism_type = "UNICELLULAR"
    /\ subject.ready_to_mate
    /\ subject.energy >= ReproductionCost
    /\ subject' = asexual_cost(subject)
    /\ stage' = "own"
    /\ UNCHANGED met
    /\ UNCHANGED outsidePhysiology

\* try_reproduce(mate) of a unicellular subject in its loop over nearby
\* organisms: _bacterial_conjugation
ConjugationAsSelf ==
    /\ stage \in {"solo", "own"}
    /\ subject.organism_type = "UNICELLULAR"
    /\ subject.ready_to_mate
    /\ subject.energy >= ReproductionCost
    /\ met < MaxNeighbours
    /\ subject' = conjugation_cost_self(subject)
    /\ stage' = "own"
    /\ met' = met + 1
    /\ UNCHANGED outsidePhysiology

\* the subject attacks a prey in its loop over nearby organisms
Attacks ==
    /\ stage \in {"solo", "own"}
    /\ subject.organism_type = "OMNIVORE"
    /\ met < MaxNeighbours
    /\ \E target_health \in {-5, 20}, gain \in EnergyGains :
         subject' = attack_self(subject, target_health, gain)
    /\ stage' = "own"
    /\ met' = met + 1
    /\ UNCHANGED outsidePhysiology

\* the loop body of a predator next to the live subject attacks it
Attacked ==
    /\ stage \in {"solo", "own", "others"}
    /\ subject.is_alive
    /\ subject.organism_type = "UNICELLULAR"
    /\ met < MaxNeighbours
    /\ \E d \in Damages : subject' = attack_target(subject, d)
    /\ stage' = "others"
    /\ met' = met + 1
    /\ UNCHANGED outsidePhysiology

\* try_reproduce(subject) in the loop body of a ready unicellular neighbour
\* whose energy covers the cost: the subject, alive and flagged ready, is
\* the mate
ConjugationAsMate ==
    /\ stage \in {"solo", "own", "others"}
    /\ subject.organism_type = "UNICELLULAR"
    /\ subject.is_alive
    /\ subject.ready_to_mate
    /\ met < MaxNeighbours
    /\ subject' = conjugation_cost_mate(subject)
    /\ stage' = "others"
    /\ met' = met + 1
    /\ UNCHANGED outsidePhysiology

NextPhysiology ==
    \/ NewOrganism
    \/ UpdateSubject
    \/ SelectionPressure
    \/ Asexual
    \/ ConjugationAsSelf
    \/ Attacks
    \/ Attacked
    \/ ConjugationAsMate

(***************************************************************************)
(* main.py: WorldCell and the resources of the cells                       *)
(***************************************************************************)
\* resource amounts are held in ten-thousandths: Unit stands for 1.0, and
\* a product is cut to that precision
Unit == 10000
\* delta_time of the ticks
DeltaTime == 5
\* World.grid_width; the grid is one row of cells
World_grid_width == 2
\* cell updates, feedings and deposits followed
MaxCellSteps == 3

\* ResourceType
ResourceTypes ==
    {"SUNLIGHT", "WATER", "MINERALS", "OXYGEN", "CO2", "ORGANIC_MATTER"}

\* biome and altitude (in tenths) _generate_world gives a cell: an ocean
\* cell lies below -0.5, a mountain cell above 0.7
Terrains == {<<"OCEAN", -6>>, <<"FOREST", 2>>, <<"MOUNTAIN", 8>>}
\* the draw of _initialize_cell_resources for the capacity, in percent of
\* the capacity: uniform(-0.15, 0.15)
Variations == {0}
\* its draw for the initial level, in percent of the capacity:
\* uniform(min_percent, 1.0) with min_percent between 0.5 and 0.8
Fills == {80, 100}
\* sunlight_factor * seasonal modifier * weather modifier of a tick, in
\* percent: night, half light, and noon in spring (1.0 * 1.1 * 1.0)
SunlightPercents == {0, 50, 110}
\* cell.temperature as _calculate_cell_temperature sets it
Temperatures == {20, 35}
\* random.uniform(10, 20) of a precipitation, 0 for none
Rains == {0, 15 * Unit}
\* phenotype.size * 10 of a decomposed organism
Biomasses == {Unit, 10 * Unit}
\* phenotype.metabolism_rate and phenotype.strength, in percent
MetabolismRates == {100}
Strengths == {100}

\* _initialize_cell_resources: base_resources
base_resources(resource_type) ==
    CASE resource_type = "SUNLIGHT" -> Unit
      [] resource_type = "WATER" -> Unit \div 2
      [] resource_type = "MINERALS" -> Unit \div 2
      [] resource_type = "OXYGEN" -> (8 * Unit) \div 10
      [] resource_type = "CO2" -> (2 * Unit) \div 10
      [] resource_type = "ORGANIC_MATTER" -> Unit \div 10

\* _initialize_cell_resources: biome_modifiers, in percent
biome_modifiers(biome_type, resource_type) ==
    CASE biome_type = "OCEAN" ->
            (CASE resource_type = "SUNLIGHT" -> 20
               [] resource_type = "WATER" -> 250
               [] resource_type = "MINERALS" -> 90
               [] resource_type = "OXYGEN" -> 60
               [] resource_type = "CO2" -> 40
               [] resource_type = "ORGANIC_MATTER" -> 40)
      [] biome_type = "FOREST" ->
            (CASE resource_type = "SUNLIGHT" -> 70
               [] resource_type = "WATER" -> 100
               [] resource_type = "MINERALS" -> 90
               [] resource_type = "OXYGEN" -> 140
               [] resource_type = "CO2" -> 10
               [] resource_type = "ORGANIC_MATTER" -> 120)
      [] biome_type = "MOUNTAIN" ->
            (CASE resource_type = "SUNLIGHT" -> 130
               [] resource_type = "WATER" -> 40
               [] resource_type = "MINERALS" -> 140
               [] resource_type = "OXYGEN" -> 80
               [] resource_type = "CO2" -> 20
               [] resource_type = "ORGANIC_MATTER" -> 30)

\* _initialize_cell_resources: the capacity of one resource
initial_capacity(biome_type, resource_type, variation) ==
    LET capacity == (base_resources(resource_type)
                     * biome_modifiers(biome_type, resource_type)) \div 100
    IN  Max(Unit \div 10, capacity + (variation * capacity) \div 100)

\* WorldCell.__init__ followed by _initialize_cell_resources
WorldCell(biome_type, altitude, variation, fill) ==
    [biome_type |-> biome_type,
     altitude |-> altitude,
     resource_capacity |->
         [r \in ResourceTypes |-> initial_capacity(biome_type, r, variation)],
     resources |->
         [r \in ResourceTypes |->
             (initial_capacity(biome_type, r, variation) * fill) \div 100]]

\* World.get_neighboring_cells in a row of cells, in the order of dx
get_neighboring_cells(c) ==
    SelectSeq(<<c - 1, c + 1>>, LAMBDA n : n \in 1..World_grid_width)

\* _diffuse_resource: diffusion_rates[resource_type] * delta_time, in
\* thousandths
diffusion_rate(resource_type) ==
    (CASE resource_type = "WATER" -> 5
       [] resource_type = "OXYGEN" -> 10
       [] resource_type = "CO2" -> 10
       [] OTHER -> 0) * DeltaTime

\* a flow that runs downhill for every resource
diffusion_flow_all_downhill(cs, c, n, resource_type) ==
    LET diff == cs[c].resources[resource_type]
                - cs[n].resources[resource_type]
        altitude_factor == (cs[c].altitude - cs[n].altitude) * 2
        sloped == IF altitude_factor > 0
                  THEN diff + (altitude_factor * 20 * Unit) \div 10
                  ELSE diff
    IN  (sloped * diffusion_rate(resource_type)) \div 1000

\* _diffuse_resource: the flow from cell c to its neighbour n; water also
\* runs downhill
diffusion_flow(cs, c, n, resource_type) ==
    LET diff == cs[c].resources[resource_type]
                - cs[n].resources[resource_type]
        \* (self.altitude - neighbor.altitude) * 2, in tenths
        altitude_factor == (cs[c].altitude - cs[n].altitude) * 2
        sloped == IF resource_type = "WATER" /\ altitude_factor > 0
                  THEN diff + (altitude_factor * 20 * Unit) \div 10
                  ELSE diff
    IN  (sloped * diffusion_rate(resource_type)) \div 1000

RECURSIVE apply_flows(_, _, _, _, _)
\* _diffuse_resource: the second loop, over the flows computed before
apply_flows(cs, c, resource_type, neighbors, flows) ==
    IF neighbors = <<>> THEN cs
    ELSE LET n == Head(neighbors)
             flow == Head(flows)
             actual_flow == Min(flow, cs[c].resources[resource_type])
             moved ==
                 IF flow > 0
                 THEN [cs EXCEPT
                         ![c].resources[resource_type] = @ - actual_flow,
                         ![n].resources[resource_type] =
                             Min(cs[n].resource_capacity[resource_type],
                                 @ + actual_flow)]
                 ELSE cs
         IN  apply_flows(moved, c, resource_type, Tail(neighbors), Tail(flows))

\* WorldCell._diffuse_resource
diffuse_resource(cs, c, resource_type, neighbors) ==
    IF neighbors = <<>> THEN cs
    ELSE apply_flows(cs, c, resource_type, neighbors,
                     [k \in 1..Len(neighbors) |->
                         diffusion_flow(cs, c, neighbors[k], resource_type)])

\* WorldCell.update, the WATER round: diffusion, then a precipitation
update_water(cs, c, neighbors, rain) ==
    LET d == diffuse_resource(cs, c, "WATER", neighbors)
    IN  IF rain > 0
        THEN [d EXCEPT ![c].resources["WATER"] =
                 Min(d[c].resource_capacity["WATER"], @ + rain)]
        ELSE d

\* WorldCell.update, the MINERALS round: resource_regen_rate is 0.1
update_minerals(cs, c) ==
    IF cs[c].resources["MINERALS"] < cs[c].resource_capacity["MINERALS"]
    THEN [cs EXCEPT ![c].resources["MINERALS"] =
             Min(cs[c].resource_capacity["MINERALS"],
                 @ + (Unit * DeltaTime) \div 100)]
    ELSE cs

\* WorldCell.update, the OXYGEN round: diffusion, then conversion to CO2
update_oxygen(cs, c, neighbors) ==
    LET d == diffuse_resource(cs, c, "OXYGEN", neighbors)
        conversion_amount == (d[c].resources["OXYGEN"] * DeltaTime) \div 1000
    IN  [d EXCEPT ![c].resources["OXYGEN"] = Max(0, @ - conversion_amount),
                  ![c].resources["CO2"] =
                      Min(Unit, @ + conversion_amount \div 2)]

\* WorldCell.update, the ORGANIC_MATTER round
update_organic_matter(cs, c, temperature) ==
    LET res == cs[c].resources
        cap == cs[c].resource_capacity["ORGANIC_MATTER"]
    IN  IF /\ res["WATER"] > 5 * Unit
           /\ res["SUNLIGHT"] > 10 * Unit
           /\ res["CO2"] > Unit \div 20
        THEN LET growth_factor ==
                     (((((res["WATER"] \div 100) * (res["SUNLIGHT"] \div 100))
                        \div Unit) * res["CO2"]) \div Unit) * 8 * DeltaTime
                 temp_factor ==
                     IF temperature < -5 \/ temperature > 45 THEN 30
                     ELSE IF temperature < 5 \/ temperature > 35 THEN 70
                     ELSE 100
                 biome_factor ==
                     IF cs[c].biome_type \in
                            {"FOREST", "RAINFOREST", "GRASSLAND", "SWAMP"}
                     THEN 150 ELSE 100
                 min_growth == (Unit * DeltaTime) \div 20
                 growth_amount ==
                     Max(min_growth,
                         ((((growth_factor * temp_factor) \div 100)
                           * biome_factor) \div 100) * 3)
             IN  [cs EXCEPT
                     ![c].resources["ORGANIC_MATTER"] =
                         Min(cap, @ + growth_amount),
                     ![c].resources["CO2"] =
                         Max(Unit \div 10, @ - growth_amount \div 10),
                     ![c].resources["OXYGEN"] =
                         Min(100 * Unit, @ + growth_amount \div 5)]
        ELSE [cs EXCEPT ![c].resources["ORGANIC_MATTER"] =
                 Min(cap, @ + (2 * Unit * DeltaTime) \div 100)]

RECURSIVE receive_vapour(_, _, _)
\* WorldCell.update: the evaporated water that reaches the neighbours
receive_vapour(cs, neighbors, water_per_neighbor) ==
    IF neighbors = <<>> THEN cs
    ELSE receive_vapour(
             [cs EXCEPT ![Head(neighbors)].resources["WATER"] =
                 Min(cs[Head(neighbors)].resource_capacity["WATER"],
                     @ + water_per_neighbor)],
             Tail(neighbors), water_per_neighbor)

\* WorldCell.update, after the rounds: evaporation above 25 degrees
evaporate(cs, c, neighbors, temperature) ==
    IF temperature > 25 /\ cs[c].resources["WATER"] > 0
    THEN LET evaporation_rate ==
                 ((temperature - 25) * 2 * DeltaTime * Unit) \div 1000
             water_loss == Min(cs[c].resources["WATER"], evaporation_rate)
             dried == [cs EXCEPT ![c].resources["WATER"] = @ - water_loss]
         IN  IF neighbors # <<>>
             THEN receive_vapour(dried, neighbors,
                                 ((water_loss * 7) \div 10) \div Len(neighbors))
             ELSE dried
    ELSE cs

\* WorldCell.update(delta_time, neighboring_cells): the rounds in the order
\* of ResourceType (SUNLIGHT is skipped), then the evaporation
WorldCell_update(cs, c, neighbors, rain, temperature) ==
    LET water == update_water(cs, c, neighbors, rain)
        minerals == update_minerals(water, c)
        oxygen == update_oxygen(minerals, c, neighbors)
        co2 == diffuse_resource(oxygen, c, "CO2", neighbors)
        organic == update_organic_matter(co2, c, temperature)
    IN  evaporate(organic, c, neighbors, temperature)

\* World.update, the body of the loop over active cells for cell c
update_active_cell(cs, c, sunlight, rain, temperature) ==
    LET lit == [cs EXCEPT ![c].resources["SUNLIGHT"] =
                   (cs[c].resource_capacity["SUNLIGHT"] * sunlight) \div 100]
    IN  WorldCell_update(lit, c, get_neighboring_cells(c), rain, temperature)

\* Organism.interact_with_environment: what it does to the cell of the
\* organism
feed_on_cell(cs, c, organism_type, metabolism_rate, strength, thirsty) ==
    LET res == cs[c].resources
        fed ==
            IF organism_type \in {"UNICELLULAR", "PLANT"}
            THEN IF res["SUNLIGHT"] > 0 /\ res["WATER"] > 0
                 THEN LET sunlight_absorbed ==
                              Min(DeltaTime * 2 * Unit, res["SUNLIGHT"])
                          water_absorbed == Min(DeltaTime * Unit, res["WATER"])
                          energy_gained ==
                              (sunlight_absorbed * 5 * metabolism_rate) \div 100
                      IN  [cs EXCEPT
                              ![c].resources["SUNLIGHT"] = @ - sunlight_absorbed,
                              ![c].resources["WATER"] = @ - water_absorbed,
                              ![c].resources["OXYGEN"] = @ + energy_gained \div 5]
                 ELSE cs
            ELSE IF organism_type = "HERBIVORE"
            THEN LET plant_energy == res["ORGANIC_MATTER"] \div 2
                     consumed ==
                         Min((DeltaTime * 3 * strength * Unit) \div 100,
                             plant_energy)
                 IN  IF plant_energy > 0
                     THEN [cs EXCEPT
                             ![c].resources["ORGANIC_MATTER"] = @ - consumed * 2]
                     ELSE cs
            ELSE cs
    IN  IF fed[c].resources["WATER"] > 0 /\ thirsty
        THEN [fed EXCEPT ![c].resources["WATER"] =
                 @ - Min(DeltaTime * 2 * Unit, @)]
        ELSE fed

\* WorldCell.add_decomposition
add_decomposition(cs, c, biomass) ==
    [cs EXCEPT
        ![c].resources["ORGANIC_MATTER"] =
            Min(cs[c].resource_capacity["ORGANIC_MATTER"], @ + biomass \div 2),
        ![c].resources["MINERALS"] =
            Min(cs[c].resource_capacity["MINERALS"], @ + biomass \div 5),
        ![c].resources["CO2"] = Min(Unit, @ + biomass \div 10)]

\* no diffusion step was run yet
NoDiffusion == [cell |-> 0, resource_type |-> "none", before |-> <<>>]

\* World._generate_world: every cell of the row
InitCells ==
    /\ cells \in [1..World_grid_width ->
                    {WorldCell(t[1], t[2], v, f) :
                        t \in Terrains, v \in Variations, f \in Fills}]
    /\ cellSteps = 0
    /\ diffused = NoDiffusion

\* one generated row, next to which the rest of the program runs
OneRow ==
    /\ cells = [c \in 1..World_grid_width |-> WorldCell("FOREST", 2, 0, 100)]
    /\ cellSteps = 0
    /\ diffused = NoDiffusion

\* World.update: an active cell gets its sunlight and is updated
UpdateCell ==
    /\ cellSteps < MaxCellSteps
    /\ \E c \in 1..World_grid_width, sunlight \in SunlightPercents,
          rain \in Rains, temperature \in Temperatures :
         cells' = update_active_cell(cells, c, sunlight, rain, temperature)
    /\ cellSteps' = cellSteps + 1
    /\ UNCHANGED diffused
    /\ UNCHANGED outsideCells

\* Organism.update of an organism standing on cell c ends with
\* interact_with_environment
FeedOnCell ==
    /\ cellSteps < MaxCellSteps
    /\ \E c \in 1..World_grid_width,
          t \in {"UNICELLULAR", "HERBIVORE", "CARNIVORE"},
          m \in MetabolismRates, s \in Strengths, thirsty \in BOOLEAN :
         cells' = feed_on_cell(cells, c, t, m, s, thirsty)
    /\ cellSteps' = cellSteps + 1
    /\ UNCHANGED diffused
    /\ UNCHANGED outsideCells

\* World.update: a dead organism on cell c decomposes
Decompose ==
    /\ cellSteps < MaxCellSteps
    /\ \E c \in 1..World_grid_width, biomass \in Biomasses :
         cells' = add_decomposition(cells, c, biomass)
    /\ cellSteps' = cellSteps + 1
    /\ UNCHANGED diffused
    /\ UNCHANGED outsideCells

NextCells ==
    \/ UpdateCell
    \/ FeedOnCell
    \/ Decompose

(***************************************************************************)
(* main.py: the line of a lone unicellular founder under asexual division  *)
(***************************************************************************)
\* organisms of the line followed
MaxClones == 4
\* mutation_count of _count_significant_mutations for the offspring's genome
MutationCounts == {0, 5}
\* its mutation_significance, in percent
MutationSignificances == {0, 50}
\* Organism.adaptation_score, in percent
AdaptationScores == {30, 50, 90}
\* random.random() of the speciation draw, in percent
Rolls == {0, 50, 90}

\* Organism.__init__ for an organism of the line: species_population is 1
\* and stays 1
Clone(id, species_id, generation, parent_ids, mutation_count, score) ==
    [id |-> id, species_id |-> species_id, generation |-> generation,
     parent_ids |-> parent_ids, mutation_count |-> mutation_count,
     adaptation_score |-> score, species_population |-> 1]

\* _asexual_reproduction: speciation_probability, in percent
speciation_probability(self, mutation_count, mutation_significance) ==
    LET mutation_factor ==
            Min(100, (mutation_count * mutation_significance * 2) \div 5)
        geographic_isolation ==
            IF self.species_population < 5 THEN 20 ELSE 0
        environmental_pressure ==
            IF self.adaptation_score < 40 THEN 30
            ELSE IF self.adaptation_score < 60 THEN 15
            ELSE 0
        generation_factor == Min(30, self.generation)
    IN  Min(80, Max(0, 5 + (mutation_factor * 40) \div 100
                         + geographic_isolation + environmental_pressure
                         + generation_factor))

\* _asexual_reproduction: the offspring of self, with the speciation draw
asexual_offspring(self, id, mutation_count, mutation_significance, roll, score) ==
    LET new_species ==
            roll < speciation_probability(self, mutation_count,
                                          mutation_significance)
    IN  Clone(id, IF new_species THEN id ELSE self.species_id,
              self.generation + 1, <<self.id>>, mutation_count, score)

\* the founder: a spawned organism is its own species
InitClones ==
    \E score \in AdaptationScores :
        lineage = <<Clone(1, 1, 1, <<>>, 0, score)>>

\* one founder, next to which the rest of the program runs
OneFounder == lineage = <<Clone(1, 1, 1, <<>>, 0, 50)>>

\* try_reproduce(None) of a ready organism of the line: asexual division.
\* A mutation_count of 0 goes with a significance of 0
Divide ==
    /\ Len(lineage) < MaxClones
    /\ \E p \in 1..Len(lineage), mutation_count \in MutationCounts,
          mutation_significance \in MutationSignificances,
          roll \in Rolls, score \in AdaptationScores :
         /\ mutation_count = 0 => mutation_significance = 0
         /\ lineage' = Append(lineage,
                asexual_offspring(lineage[p], Len(lineage) + 1, mutation_count,
                                  mutation_significance, roll, score))
    /\ UNCHANGED outsideClones

NextClones == Divide

(***************************************************************************)
(* main.py: the reproduction cooldown of one organism over the world ticks *)
(***************************************************************************)
\* len(self.organisms) at the start of a tick
Populations == {100, 12000}
\* the values reproduction sets: the donor of a conjugation, a division in a
\* rich cell (30 * 0.8), the initiator of a conjugation
Cooldowns == {15, 24, 25}
\* turns of the organism followed after one reproduction
MaxTurns == 6

\* World.__init__: lod_thresholds, as (threshold, ratio in percent) sorted
lod_thresholds == <<<<5000, 100>>, <<10000, 50>>, <<15000, 25>>, <<20000, 10>>>>

RECURSIVE lod_ratio(_, _, _)
\* World.update: the loop over sorted(self.lod_thresholds.items())
lod_ratio(population, k, ratio) ==
    IF k > Len(lod_thresholds) THEN ratio
    ELSE lod_ratio(population, k + 1,
                   IF population > lod_thresholds[k][1]
                   THEN lod_thresholds[k][2] ELSE ratio)

\* World.update: update_ratio, in percent
update_ratio(population) == lod_ratio(population, 1, 100)

\* the decrement without its floor of 0
decrement_cooldown_unclamped(cooldown, delta_time) ==
    IF cooldown > 0 THEN cooldown - delta_time ELSE cooldown

\* Organism.update: the cooldown after one update
decrement_cooldown(cooldown, delta_time) ==
    IF cooldown > 0 THEN Max(0, cooldown - delta_time) ELSE cooldown

\* Organism.update of a live organism; fit stands for maturity, energy,
\* health and offspring_count allowing reproduction
Organism_update_cooldown(o, delta_time, fit, dies) ==
    LET cooldown == decrement_cooldown(o.reproduction_cooldown, delta_time)
    IN  [o EXCEPT !.reproduction_cooldown = cooldown,
                  !.ready_to_mate = fit /\ cooldown = 0,
                  !.is_alive = ~dies]

\* a reproduction sets the cooldown of o to c; ready_to_mate is left as the
\* last update computed it
set_cooldown(o, c) == [o EXCEPT !.reproduction_cooldown = c]

\* Organism.__init__, after the updates that made the organism ready
InitCooldown ==
    /\ breeder = [is_alive |-> TRUE, reproduction_cooldown |-> 0,
                  ready_to_mate |-> TRUE]
    /\ turn = "before"
    /\ cooldown_set = 0
    /\ updates_since = 0
    /\ ticks_since = 0

\* the body of the organism loop for the live organism: update, then
\* possibly a reproduction it initiates (try_reproduce tests ready_to_mate
\* only, so also in the update in which the organism dies of age)
OrganismBody ==
    /\ turn = "before"
    /\ breeder.is_alive
    /\ ticks_since < MaxTurns
    /\ \E population \in Populations, fit \in BOOLEAN, dies \in BOOLEAN,
          c \in Cooldowns \cup {0} :
         LET o == Organism_update_cooldown(breeder, DeltaTime, fit, dies)
         IN  /\ update_ratio(population) <= 100
             /\ c > 0 => o.ready_to_mate
             /\ breeder' = IF c > 0 THEN set_cooldown(o, c) ELSE o
             /\ cooldown_set' = IF c > 0 THEN c ELSE cooldown_set
             /\ updates_since' = IF c > 0 THEN 0 ELSE updates_since + 1
             /\ ticks_since' = IF c > 0 THEN 0 ELSE ticks_since + 1
    /\ turn' = "after"
    /\ UNCHANGED outsideCooldown

\* the loop reaches the organism when it is dead: continue
DeadBody ==
    /\ turn = "before"
    /\ ~breeder.is_alive
    /\ ticks_since < MaxTurns
    /\ ticks_since' = ticks_since + 1
    /\ turn' = "after"
    /\ UNCHANGED <<breeder, cooldown_set, updates_since>>
    /\ UNCHANGED outsideCooldown

\* update_ratio < 1 and the organism is not in the sample of this tick
NotSampled ==
    /\ turn = "before"
    /\ ticks_since < MaxTurns
    /\ \E population \in Populations : update_ratio(population) < 100
    /\ ticks_since' = ticks_since + 1
    /\ turn' = "after"
    /\ UNCHANGED <<breeder, cooldown_set, updates_since>>
    /\ UNCHANGED outsideCooldown

\* another organism's body reproduces with the organism as mate, before or
\* after the organism's own turn in the tick
ChosenAsMate ==
    /\ breeder.is_alive
    /\ breeder.ready_to_mate
    /\ \E c \in Cooldowns :
         /\ breeder' = set_cooldown(breeder, c)
         /\ cooldown_set' = c
    /\ updates_since' = 0
    /\ ticks_since' = 0
    /\ UNCHANGED turn
    /\ UNCHANGED outsideCooldown

\* World.update returns and is called again
NextTick ==
    /\ turn = "after"
    /\ turn' = "before"
    /\ UNCHANGED <<breeder, cooldown_set, updates_since, ticks_since>>
    /\ UNCHANGED outsideCooldown

NextCooldown ==
    \/ OrganismBody
    \/ DeadBody
    \/ NotSampled
    \/ ChosenAsMate
    \/ NextTick

(***************************************************************************)
(* main.py: two unicellular organisms that can mate, over the world ticks  *)
(***************************************************************************)
\* energy of an organism after the metabolism and the feeding of one tick
Energies == {45, 90}

\* what try_reproduce leaves: the two organisms, and the parents of the
\* offspring it returned (none when it returned None)
Outcome(p, parents) == [partners |-> p, parents |-> parents]

\* a parent as try_reproduce found it
Parent(p, i, role) ==
    [id |-> i, role |-> role,
     reproduction_cooldown |-> p[i].reproduction_cooldown]

\* Organism.try_reproduce of a unicellular organism: None unless
\* ready_to_mate holds and the energy pays the cost; _bacterial_conjugation
\* when there is a mate and the draw is below 0.2, _asexual_reproduction
\* (in a cell rich in organic matter) otherwise
try_reproduce_unicellular(p, self, mate, conjugates) ==
    IF ~p[self].ready_to_mate \/ p[self].energy < ReproductionCost
    THEN Outcome(p, <<>>)
    ELSE IF mate # NoOrganism /\ conjugates
    THEN Outcome([p EXCEPT
                    ![self] = set_cooldown(conjugation_cost_self(@), 25),
                    ![mate] = set_cooldown(conjugation_cost_mate(@), 15)],
                 <<Parent(p, self, "initiator"), Parent(p, mate, "mate")>>)
    ELSE Outcome([p EXCEPT ![self] = set_cooldown(asexual_cost(@), 24)],
                 <<Parent(p, self, "initiator")>>)

\* Organism.__init__, twice
InitMating ==
    /\ partners = [i \in 1..2 |->
                  [is_alive |-> TRUE, reproduction_cooldown |-> 0,
                   ready_to_mate |-> FALSE, energy |-> EnergyCapacity \div 2]]
    /\ partner_index = 0
    /\ births = <<>>

\* World.update is called: the organism loop starts
TickOfPair ==
    /\ partner_index = 0
    /\ partner_index' = 1
    /\ births' = <<>>
    /\ UNCHANGED partners
    /\ UNCHANGED outsideMating

\* the loop body of a dead organism: continue (the organism stays in the
\* list as long as the decomposition draw fails)
BodyOfDead ==
    /\ partner_index \in 1..2
    /\ ~partners[partner_index].is_alive
    /\ partner_index' = (partner_index + 1) % 3
    /\ births' = <<>>
    /\ UNCHANGED partners
    /\ UNCHANGED outsideMating

\* the loop body of a live organism: Organism.update, the division of a
\* ready unicellular organism when its draw succeeds, then the loop over
\* nearby_organisms, which holds the other organism when near is true
BodyOfLive ==
    /\ partner_index \in 1..2
    /\ partners[partner_index].is_alive
    /\ \E energy \in Energies, mature \in BOOLEAN, dies \in BOOLEAN,
          divides \in BOOLEAN, near \in BOOLEAN, conjugates \in BOOLEAN :
         LET self == partner_index
             other == 3 - partner_index
             fed == [partners[self] EXCEPT !.energy = energy]
             fit == mature /\ 10 * energy > 7 * EnergyCapacity
             p1 == [partners EXCEPT ![self] =
                       Organism_update_cooldown(fed, DeltaTime, fit, dies)]
             solo == IF p1[self].ready_to_mate /\ divides
                     THEN try_reproduce_unicellular(p1, self, NoOrganism, FALSE)
                     ELSE Outcome(p1, <<>>)
             p2 == solo.partners
             both == IF /\ near
                        /\ p2[other].is_alive
                        /\ p2[self].ready_to_mate
                        /\ p2[other].ready_to_mate
                     THEN try_reproduce_unicellular(p2, self, other, conjugates)
                     ELSE Outcome(p2, <<>>)
         IN  /\ partners' = both.partners
             /\ births' = solo.parents \o both.parents
    /\ partner_index' = (partner_index + 1) % 3
    /\ UNCHANGED outsideMating

NextMating ==
    \/ TickOfPair
    \/ BodyOfDead
    \/ BodyOfLive


(***************************************************************************)
(* main.py: the species bookkeeping of a world of unicellular organisms    *)
(***************************************************************************)
\* organisms ever created in that world
MaxBorn == 4

\* World.__init__ with max_organisms = 2, no organism yet
InitCensus ==
    /\ biosphere = [organisms |-> <<>>,
                    grid |-> [b \in Buckets |-> <<>>],
                    organism_positions |-> [i \in 1..MaxBorn |-> NoBucket],
                    species_stats |-> [t \in OrganismTypes |-> 0],
                    species_registry |-> [s \in 1..MaxBorn |-> NoEntry],
                    extinction_count |-> 0,
                    speciation_events |-> 0,
                    max_organisms |-> 2]
    /\ creatures = <<>>

\* World.spawn_random_organisms, one unicellular organism; the world is
\* populated before its first tick
SpawnCreature ==
    /\ Len(creatures) < MaxBorn
    /\ \A i \in 1..Len(creatures) : creatures[i].parent_ids = <<>>
    /\ \E sc \in Scores :
         LET id == Len(creatures) + 1
             oh == Append(creatures,
                          Organism(id, 0, "UNICELLULAR", 1, <<>>, id, sc))
         IN  /\ creatures' = oh
             /\ biosphere' = add_organism(biosphere, oh, id)
    /\ UNCHANGED outsideCensus

\* the loop body of a live organism of the list that divides:
\* try_reproduce(None), then add_organism(offspring)
CreatureDivides ==
    /\ Len(creatures) < MaxBorn
    /\ \E k \in 1..Len(biosphere.organisms) :
         LET self == biosphere.organisms[k]
             id == Len(creatures) + 1
         IN  /\ creatures[self].is_alive
             /\ \E offspring \in asexual_reproduction(creatures, self, id) :
                  LET oh == Append(creatures, offspring)
                  IN  /\ creatures' = oh
                      /\ biosphere' = add_organism(biosphere, oh, id)
    /\ UNCHANGED outsideCensus

\* the loop body of a live organism of the list whose update ends in die()
CreatureDies ==
    /\ \E k \in 1..Len(biosphere.organisms) :
         LET self == biosphere.organisms[k]
         IN  /\ creatures[self].is_alive
             /\ creatures' = [creatures EXCEPT ![self].is_alive = FALSE]
    /\ UNCHANGED biosphere
    /\ UNCHANGED outsideCensus

\* the loop body of a dead organism whose decomposition draw succeeds
CreatureDecomposes ==
    /\ \E k \in 1..Len(biosphere.organisms) :
         LET self == biosphere.organisms[k]
         IN  /\ ~creatures[self].is_alive
             /\ biosphere' = remove_organism(biosphere, creatures, self)
    /\ UNCHANGED creatures
    /\ UNCHANGED outsideCensus

NextCensus ==
    \/ SpawnCreature
    \/ CreatureDivides
    \/ CreatureDies
    \/ CreatureDecomposes

(***************************************************************************)
(* main.py: dead organisms in the organism loop, tick after tick           *)
(***************************************************************************)
\* organisms ever created in the world followed
MaxHerd == 3
\* World.max_organisms of that world
HerdCap == 2

RECURSIVE sample_of(_, _, _)
\* [org for i, org in enumerate(self.organisms) if i in indices]
sample_of(list, indices, i) ==
    IF i > Len(list) THEN <<>>
    ELSE (IF i \in indices THEN <<list[i]>> ELSE <<>>)
         \o sample_of(list, indices, i + 1)

\* organisms_to_update: the sample, or World.organisms itself (no copy)
organisms_to_update == IF sweep.sampled THEN sweep.list ELSE herd.organisms

\* a decomposition that leaves the organism in the collection
decompose_kept(list, id) == list

\* World._remove_organism, the collection's side
decompose(list, id) == IF InSeq(id, list) THEN RemoveFirst(list, id) ELSE list

\* two founders spawned, World.update not yet called
InitDecay ==
    /\ herd = [organisms |-> <<1, 2>>,
               is_alive |-> [i \in 1..MaxHerd |-> TRUE],
               born |-> 2]
    /\ sweep = [running |-> FALSE, sampled |-> FALSE, list |-> <<>>,
                index |-> 0]

\* World.update up to the organism loop, with id in organisms_to_update when
\* the loop starts: either update_ratio is 1.0 or the sample holds id
SweepWith(id) ==
    /\ ~sweep.running
    /\ \E sampled \in BOOLEAN, indices \in SUBSET (1..Len(herd.organisms)) :
         LET list == IF sampled THEN sample_of(herd.organisms, indices, 1)
                     ELSE <<>>
         IN  /\ InSeq(id, IF sampled THEN list ELSE herd.organisms)
             /\ ~sampled => indices = {}
             /\ sweep' = [running |-> TRUE, sampled |-> sampled,
                          list |-> list, index |-> 0]
    /\ UNCHANGED herd
    /\ UNCHANGED outsideDecay

\* World.update up to the organism loop, whatever the sample
StartSweep ==
    /\ ~sweep.running
    /\ \E sampled \in BOOLEAN, indices \in SUBSET (1..Len(herd.organisms)) :
         /\ ~sampled => indices = {}
         /\ sweep' = [running |-> TRUE, sampled |-> sampled,
                      list |-> IF sampled
                               THEN sample_of(herd.organisms, indices, 1)
                               ELSE <<>>,
                      index |-> 0]
    /\ UNCHANGED herd
    /\ UNCHANGED outsideDecay

\* the iterator of the loop gives id, which is dead
AtDead(id) ==
    /\ sweep.running
    /\ sweep.index < Len(organisms_to_update)
    /\ organisms_to_update[sweep.index + 1] = id
    /\ ~herd.is_alive[id]

\* the loop body of a dead organism whose decomposition draw fails
DeadStays ==
    /\ \E id \in 1..MaxHerd : AtDead(id)
    /\ sweep' = [sweep EXCEPT !.index = @ + 1]
    /\ UNCHANGED herd
    /\ UNCHANGED outsideDecay

\* the loop body of the dead organism id when random.random() is below
\* delta_time * 0.1: _remove_organism
Decomposes(id) ==
    /\ AtDead(id)
    /\ herd' = [herd EXCEPT !.organisms = decompose(@, id)]
    /\ sweep' = [sweep EXCEPT !.index = @ + 1]
    /\ UNCHANGED outsideDecay

DeadDecomposes == \E id \in 1..MaxHerd : Decomposes(id)

\* the loop body of a live organism: Organism.update, after which it is dead
\* or not, and possibly a division; add_organism culls a live organism of a
\* full world (which one follows from the adaptation scores)
LiveBody ==
    /\ sweep.running
    /\ sweep.index < Len(organisms_to_update)
    /\ LET id == organisms_to_update[sweep.index + 1]
       IN  /\ herd.is_alive[id]
           /\ \E dies \in BOOLEAN, divides \in BOOLEAN :
                LET h1 == [herd EXCEPT !.is_alive[id] = ~dies]
                    live == {k \in 1..Len(h1.organisms) :
                                h1.is_alive[h1.organisms[k]]}
                    full == /\ Len(h1.organisms) >= HerdCap
                            /\ Len(h1.organisms) > 1
                            /\ live # {}
                IN  IF divides /\ h1.born < MaxHerd
                    THEN \E k \in IF full THEN live ELSE {0} :
                           LET kept == IF full
                                       THEN decompose(h1.organisms,
                                                      h1.organisms[k])
                                       ELSE h1.organisms
                           IN  herd' = [h1 EXCEPT
                                          !.organisms =
                                              Append(kept, h1.born + 1),
                                          !.born = @ + 1]
                    ELSE herd' = h1
    /\ sweep' = [sweep EXCEPT !.index = @ + 1]
    /\ UNCHANGED outsideDecay

\* the iterator is exhausted: World.update returns
EndSweep ==
    /\ sweep.running
    /\ sweep.index >= Len(organisms_to_update)
    /\ sweep' = [sweep EXCEPT !.running = FALSE]
    /\ UNCHANGED herd
    /\ UNCHANGED outsideDecay

NextDecay ==
    \/ StartSweep
    \/ DeadStays
    \/ DeadDecomposes
    \/ LiveBody
    \/ EndSweep

\* the caller keeps calling World.update and each call runs to its end; a
\* random draw that is made again and again does not fail for ever: the
\* organism is in the tick's sample again and again, and its decomposition
\* draw succeeds at last
FairDecay ==
    /\ WF_vars(NextDecay)
    /\ \A id \in 1..MaxHerd :
         /\ SF_vars(SweepWith(id))
         /\ SF_vars(Decomposes(id))

(***************************************************************************)
(* main.py: the calendar of the world                                      *)
(***************************************************************************)
\* ticks followed
MaxCalendarTicks == 30
YEAR_LENGTH == 43200
SEASONS_COUNT == 4
\* the divisor of the climate cycle: climate_cycle += delta_time / 3600
ClimateLength == 3600
\* delta_time of a tick, in simulated seconds
TickLengths == {900, 1800}

\* World.update, the calendar: year_cycle and climate_cycle are kept in
\* seconds, so that c.year_cycle / YEAR_LENGTH is the code's fraction.
\* _handle_season_change, which emits the milestone, has one caller,
\* _update_environmental_cycles, which nothing calls
World_update_calendar(c, delta_time) ==
    LET year_cycle == (c.year_cycle + delta_time) % YEAR_LENGTH
        year == IF c.year_cycle > year_cycle THEN c.year + 1 ELSE c.year
        season == ((year_cycle * SEASONS_COUNT) \div YEAR_LENGTH)
                      % SEASONS_COUNT
        climate_cycle == c.climate_cycle + delta_time
    IN  [year_cycle     |-> year_cycle,
         season         |-> season,
         year           |-> IF climate_cycle >= ClimateLength
                            THEN year + 1 ELSE year,
         climate_cycle  |-> IF climate_cycle >= ClimateLength
                            THEN 0 ELSE climate_cycle,
         season_changes |-> c.season_changes]

\* World.__init__
InitCalendar ==
    /\ calendar = [year_cycle |-> 0, season |-> 0, year |-> 0,
                   climate_cycle |-> 0, season_changes |-> 0]
    /\ elapsed = [ticks |-> 0, wraps |-> 0]

\* one call of World.update
CalendarTick ==
    /\ elapsed.ticks < MaxCalendarTicks
    /\ \E delta_time \in TickLengths :
         /\ calendar' = World_update_calendar(calendar, delta_time)
         /\ elapsed' = [ticks |-> elapsed.ticks + 1,
                        wraps |-> elapsed.wraps
                                  + (calendar.year_cycle + delta_time)
                                        \div YEAR_LENGTH]
    /\ UNCHANGED outsideCalendar

NextCalendar == CalendarTick

(***************************************************************************)
(* main.py: the level of detail of a tick                                  *)
(***************************************************************************)
\* largest len(self.organisms) tried, in thousands
MaxThousands == 25
\* len(self.organisms) at the start of a tick
OrganismCounts ==
    {1000 * k + d : k \in 0..MaxThousands, d \in {0, 1, 500, 999}}
\* no ratio computed yet
NoRatio == -1

\* a world between two ticks
OneLod == lod = [organism_count |-> 0, update_ratio |-> NoRatio]

\* the world holds any number of organisms when World.update is called
InitLod ==
    \E n \in OrganismCounts :
        lod = [organism_count |-> n, update_ratio |-> NoRatio]

\* World.update: organism_count and update_ratio of the tick
ComputeRatio ==
    /\ lod.update_ratio = NoRatio
    /\ lod' = [lod EXCEPT !.update_ratio = update_ratio(lod.organism_count)]
    /\ UNCHANGED outsideLod

NextLod == ComputeRatio

(***************************************************************************)
(* main.py: Phenotype, and the plants _self_pollination and                *)
(* _sexual_reproduction make; gene values in percent, traits in millionths *)
(* and factors in thousandths                                              *)
(***************************************************************************)
\* plants of the bed
MaxPlants == 3
\* deleterious mutations one self-pollination draws
MaxDeleterious == 3
\* Gene.value
PlantGeneValues == {20, 80}
\* Organism.energy of a founder
PlantEnergies == {10, 60}
\* reproduction_cost of the calls
PlantCost == 20
\* Genome.get_gene_value of a gene no chromosome holds
DefaultGeneValue == 50
\* the genes of the one chromosome of a plant's genome: those the traits
\* written by the reproductions are calculated from
TraitGenes == {"strength", "metabolism_efficiency", "fertility", "immune_system"}

\* Genome.get_gene_value, each gene being on one chromosome
get_gene_value(plant_genome, gene_id) ==
    IF gene_id \in DOMAIN plant_genome THEN plant_genome[gene_id]
    ELSE DefaultGeneValue

\* Phenotype._calculate_trait, of bounds in thousandths
calculate_trait(plant_genome, gene_id, min_value, max_value) ==
    min_value * 1000
        + get_gene_value(plant_genome, gene_id) * (max_value - min_value) * 10

\* Phenotype.__init__: the traits the reproductions write
Phenotype(plant_genome) ==
    [strength |-> calculate_trait(plant_genome, "strength", 100, 2000),
     metabolism_rate |->
         calculate_trait(plant_genome, "metabolism_efficiency", 300, 2000),
     fertility |-> calculate_trait(plant_genome, "fertility", 0, 1000),
     immune_strength |->
         calculate_trait(plant_genome, "immune_system", 0, 1000)]

\* trait *= factor
times(trait, factor) == (trait * factor) \div 1000

\* Organism.__init__ of an offspring, then maturity and the rest the
\* reproductions set; inbreeding records the effect it is born with
Plant(plant_genome, energy, parent_ids) ==
    [genome |-> plant_genome, phenotype |-> Phenotype(plant_genome),
     health |-> 100, energy |-> energy, reproduction_cooldown |-> 0,
     offspring_count |-> 0, parent_ids |-> parent_ids,
     inbreeding |-> [by |-> "none", amount |-> 0]]

\* a weakening that also writes the immune strength
weaken_selfed_all(offspring, inbreeding_depression) ==
    IF inbreeding_depression > 0
    THEN LET factor == Max(700, 1000 - inbreeding_depression)
         IN  [offspring EXCEPT
                 !.health = Max(50, 100 - inbreeding_depression \div 10),
                 !.phenotype.strength = times(@, factor),
                 !.phenotype.metabolism_rate = times(@, factor),
                 !.phenotype.immune_strength = times(@, factor),
                 !.phenotype.fertility =
                     times(@, Max(600, 1000 - (inbreeding_depression * 3) \div 2)),
                 !.inbreeding = [by |-> "self_pollination",
                                 amount |-> inbreeding_depression]]
    ELSE offspring

\* _self_pollination: the effect of inbreeding_depression on the offspring
weaken_selfed(offspring, inbreeding_depression) ==
    IF inbreeding_depression > 0
    THEN LET factor == Max(700, 1000 - inbreeding_depression)
         IN  [offspring EXCEPT
                 !.health = Max(50, 100 - inbreeding_depression \div 10),
                 !.phenotype.strength = times(@, factor),
                 !.phenotype.metabolism_rate = times(@, factor),
                 !.phenotype.fertility =
                     times(@, Max(600, 1000 - (inbreeding_depression * 3) \div 2)),
                 !.inbreeding = [by |-> "self_pollination",
                                 amount |-> inbreeding_depression]]
    ELSE offspring

\* _sexual_reproduction: the effect of inbreeding_risk on the offspring
weaken_inbred(offspring, inbreeding_risk) ==
    IF inbreeding_risk > 0
    THEN LET weakness_factor == 1000 - (inbreeding_risk * 6) \div 10
         IN  [offspring EXCEPT
                 !.health = Max(60, 100 - (inbreeding_risk * 8) \div 100),
                 !.phenotype.strength = times(@, weakness_factor),
                 !.phenotype.metabolism_rate = times(@, weakness_factor),
                 !.phenotype.immune_strength = times(@, weakness_factor),
                 !.phenotype.fertility =
                     times(@, Max(500, weakness_factor - 100)),
                 !.inbreeding = [by |-> "sexual_reproduction",
                                 amount |-> inbreeding_risk]]
    ELSE offspring

\* Organism._calculate_genetic_similarity of two plants whose genes have one
\* dominance: the weight of the genes of close values over the weight of all
genetic_similarity(genome1, genome2) ==
    LET all_gene_ids == DOMAIN genome1 \cup DOMAIN genome2
        matching == {k \in DOMAIN genome1 \cap DOMAIN genome2 :
                        Abs(genome1[k] - genome2[k]) < 15}
    IN  IF all_gene_ids = {} THEN 0
        ELSE (Cardinality(matching) * 1000) \div Cardinality(all_gene_ids)

\* _sexual_reproduction: inbreeding_risk of a similarity
inbreeding_risk_of(similarity) ==
    IF similarity > 900 THEN (similarity - 900) * 5 ELSE 0

\* the genomes a mutation of at most one gene makes of a genome
mutations_of(plant_genome) ==
    {plant_genome}
    \cup {[plant_genome EXCEPT ![k] = v] :
             k \in DOMAIN plant_genome, v \in PlantGeneValues}

\* Chromosome.combine of the chromosomes of two plants
crossings_of(genome1, genome2) ==
    {g \in [DOMAIN genome1 -> PlantGeneValues] :
        \A k \in DOMAIN genome1 : g[k] \in {genome1[k], genome2[k]}}

\* one founder or two, each with one value for all its genes
InitBed ==
    \E count \in 1..2 :
        \E base \in [1..count -> PlantGeneValues],
           energy \in [1..count -> PlantEnergies] :
            bed = [i \in 1..count |->
                      Plant([k \in TraitGenes |-> base[i]], energy[i], <<>>)]

\* one plant, next to which the rest of the program runs
OneBed == bed = <<Plant([k \in TraitGenes |-> 20], 60, <<>>)>>

\* Organism._self_pollination of plant self, which try_reproduce calls with
\* energy for the cost: the mutated copy of the genome, the offspring, the
\* inbreeding depression of 0.05 for each deleterious mutation, the cost and
\* the cooldown of a plant of age 0
SelfPollination(self) ==
    /\ Len(bed) < MaxPlants
    /\ bed[self].energy >= PlantCost
    /\ \E offspring_genome \in mutations_of(bed[self].genome),
          deleterious \in 0..MaxDeleterious :
         LET offspring ==
                 weaken_selfed(Plant(offspring_genome, 60, <<self>>),
                               deleterious * 50)
         IN  bed' = Append([bed EXCEPT
                               ![self].energy = @ - PlantCost,
                               ![self].reproduction_cooldown = 34,
                               ![self].offspring_count = @ + 1],
                           offspring)
    /\ UNCHANGED outsideBed

\* Organism._sexual_reproduction of two plants without a cell: None when the
\* mate has no energy for the cost
MateTooWeak(self, mate) ==
    /\ self # mate
    /\ bed[self].energy >= PlantCost
    /\ bed[mate].energy < PlantCost
    /\ UNCHANGED vars

\* Organism._sexual_reproduction: the draw is above reproduction_chance
ReproductionFails(self, mate) ==
    /\ self # mate
    /\ bed[self].energy >= PlantCost
    /\ bed[mate].energy >= PlantCost
    /\ bed' = [bed EXCEPT ![self].reproduction_cooldown = 20,
                          ![mate].reproduction_cooldown = 20]
    /\ UNCHANGED outsideBed

\* Organism._sexual_reproduction: the offspring of Genome.reproduce, mutated
\* or not, with the effect of the inbreeding risk, the shared cost and the
\* cooldown of plants
SexualReproduction(self, mate) ==
    /\ Len(bed) < MaxPlants
    /\ self # mate
    /\ bed[self].energy >= PlantCost
    /\ bed[mate].energy >= PlantCost
    /\ \E crossed \in crossings_of(bed[self].genome, bed[mate].genome) :
         \E offspring_genome \in mutations_of(crossed) :
           LET inbreeding_risk ==
                   inbreeding_risk_of(genetic_similarity(bed[self].genome,
                                                         bed[mate].genome))
               offspring ==
                   weaken_inbred(Plant(offspring_genome, 60, <<self, mate>>),
                                 inbreeding_risk)
           IN  bed' = Append([bed EXCEPT
                                 ![self].energy = @ - (PlantCost * 6) \div 10,
                                 ![mate].energy = @ - (PlantCost * 4) \div 10,
                                 ![self].reproduction_cooldown = 40,
                                 ![mate].reproduction_cooldown = 40,
                                 ![self].offspring_count = @ + 1,
                                 ![mate].offspring_count = @ + 1],
                             offspring)
    /\ UNCHANGED outsideBed

NextBed ==
    \/ \E self \in 1..Len(bed) : SelfPollination(self)
    \/ \E self, mate \in 1..Len(bed) : MateTooWeak(self, mate)
    \/ \E self, mate \in 1..Len(bed) : ReproductionFails(self, mate)
    \/ \E self, mate \in 1..Len(bed) : SexualReproduction(self, mate)

(***************************************************************************)
(* main.py: the caches of the world, for one key of each                   *)
(***************************************************************************)
\* ticks followed
MaxCounter == 100
\* the key is not in the cache
NotCached == -1
\* World has no attribute predator_prey_ratios yet
NoAttribute == -2
\* nothing was read from a cache in the tick so far
NoRead == [cache |-> "none", written |-> NotCached]

\* a lookup that returns whatever is cached
cache_hit_always(entry, counter) == entry # NotCached

\* _calculate_biome_adaptation: whether the cached value is returned
cache_hit(entry, counter) == entry # NotCached /\ counter % 10 # 0

\* _calculate_biome_adaptation: the cache after a call that computes the
\* value at tick counter
store_adaptation(counter) == IF counter % 1000 = 0 THEN NotCached ELSE counter

\* World.update, predation: predator_prey_ratios after the periodic update
refresh_ratio(ratios, counter) ==
    IF counter % 10 = 0
    THEN LET created == IF ratios = NoAttribute THEN NotCached ELSE ratios
         IN  IF created = NotCached \/ counter % 100 = 0
             THEN counter ELSE created
    ELSE ratios

\* World.__init__: the class attribute _biome_adaptation_cache is empty and
\* predator_prey_ratios is not set
InitCaches ==
    /\ update_counter = 0
    /\ biome_adaptation_cache = NotCached
    /\ predator_prey_ratios = NoAttribute
    /\ last_read = NoRead

\* World.update: a tick starts
CountUpdate ==
    /\ update_counter < MaxCounter
    /\ update_counter' = update_counter + 1
    /\ last_read' = NoRead
    /\ UNCHANGED <<biome_adaptation_cache, predator_prey_ratios>>
    /\ UNCHANGED outsideCaches

\* _calculate_biome_adaptation for the organism and cell of the key, called
\* from the organism loop of the tick
CalculateBiomeAdaptation ==
    /\ update_counter > 0
    /\ IF cache_hit(biome_adaptation_cache, update_counter)
       THEN /\ last_read' = [cache |-> "biome",
                             written |-> biome_adaptation_cache]
            /\ UNCHANGED biome_adaptation_cache
       ELSE /\ biome_adaptation_cache' = store_adaptation(update_counter)
            /\ last_read' = NoRead
    /\ UNCHANGED <<update_counter, predator_prey_ratios>>
    /\ UNCHANGED outsideCaches

\* World.update: a predator meets a prey of the key's types; the get on the
\* missing attribute raises AttributeError
MeetPrey ==
    /\ update_counter > 0
    /\ LET ratios == refresh_ratio(predator_prey_ratios, update_counter)
       IN  /\ predator_prey_ratios' = ratios
           /\ last_read' = IF ratios = NoAttribute
                           THEN [cache |-> "raised", written |-> NotCached]
                           ELSE [cache |-> "ratio", written |-> ratios]
    /\ UNCHANGED <<update_counter, biome_adaptation_cache>>
    /\ UNCHANGED outsideCaches

NextCaches ==
    \/ CountUpdate
    \/ CalculateBiomeAdaptation
    \/ MeetPrey

(***************************************************************************)
(* main.py: Gene, Chromosome and Genome.reproduce                          *)
(***************************************************************************)
\* chromosomes of a parent genome
MaxChromosomes == 3
\* genes of each chromosome: gene_count // chromosome_count
GenesPerChromosome == 3
\* Gene.value
GeneValues == {0, 1}
\* Gene.mutation_rate, in percent
MutationRates == {0, 1}
\* random.randint(1, 3) of a translocation
SwapCounts == {1, 2}
\* random.random(), in percent: the least and the greatest draw
LowRoll == 0
HighRoll == 99
\* no gene draws the low roll
NoGene == <<0, 0>>
\* no offspring yet
NoGenome == <<>>

\* the gene ids "gene_i_j" of chromosome i
GeneIds(i) == {<<i, g>> : g \in 1..GenesPerChromosome}

\* Gene.__init__, with the fields mutate copies
Gene(gene_id, value, mutation_rate) ==
    [gene_id |-> gene_id, value |-> value, mutation_rate |-> mutation_rate]

\* a mutate that does not look at the rate
Gene_mutate_always(gene, roll, value) == [gene EXCEPT !.value = value]

\* Gene.mutate: a copy, with another value when the roll is below the rate
Gene_mutate(gene, roll, value) ==
    IF roll < gene.mutation_rate THEN [gene EXCEPT !.value = value] ELSE gene

\* the roll of the gene under key k when gene hit draws the low roll
roll_of(k, hit) == IF k = hit THEN LowRoll ELSE HighRoll

\* Chromosome.mutate
Chromosome_mutate(chromosome, hit, value) ==
    [k \in DOMAIN chromosome |->
        Gene_mutate(chromosome[k], roll_of(k, hit), value)]

\* Chromosome.combine
Chromosome_combine(chromosome1, chromosome2, first, hit, value) ==
    [k \in DOMAIN chromosome1 \cup DOMAIN chromosome2 |->
        Gene_mutate(IF k \in DOMAIN chromosome1
                       /\ (k \notin DOMAIN chromosome2 \/ first)
                    THEN chromosome1[k] ELSE chromosome2[k],
                    roll_of(k, hit), value)]

\* Genome.random_genome: the chromosomes of a genome, all genes with one rate
random_genome(chromosome_count, base, mutation_rate) ==
    [i \in 1..chromosome_count |->
        [k \in GeneIds(i) |->
            Gene(k, (base + k[1] + k[2]) % 2, mutation_rate)]]

RECURSIVE combine_from(_, _, _, _, _, _, _, _, _)
\* Genome.reproduce: the loop over range(min_chromosomes), from index i
combine_from(genome1, genome2, i, min_chromosomes, deleted, duplicated, first, hit, value) ==
    IF i > min_chromosomes THEN <<>>
    ELSE LET new_chromosome ==
                 Chromosome_combine(genome1[i], genome2[i], first, hit, value)
             added ==
                 IF i \in deleted THEN <<>>
                 ELSE IF i \in duplicated
                 THEN <<new_chromosome,
                        Chromosome_mutate(new_chromosome, hit, value)>>
                 ELSE <<new_chromosome>>
         IN  added \o combine_from(genome1, genome2, i + 1, min_chromosomes,
                                   deleted, duplicated, first, hit, value)

\* Genome.reproduce: the chromosomes past min_chromosomes of the longer
\* genome, mutated
extra_chromosomes(longer, min_chromosomes, hit, value) ==
    [i \in 1..(Len(longer) - min_chromosomes) |->
        Chromosome_mutate(longer[min_chromosomes + i], hit, value)]

RECURSIVE swap_genes(_, _, _, _)
\* translocation: the exchanges of zip(swap_genes1, swap_genes2), from the
\* k-th on, on the pair <<chrom1, chrom2>>
swap_genes(pair, swaps, k, n) ==
    IF k > n THEN pair
    ELSE LET g1 == swaps[k][1]
             g2 == swaps[k][2]
         IN  swap_genes(<<[pair[1] EXCEPT ![g1] = pair[2][g2]],
                          [pair[2] EXCEPT ![g2] = pair[1][g1]]>>,
                        swaps, k + 1, n)

\* the sequences of exchanges a translocation can draw: swap_count pairs of
\* keys, no key of either chromosome twice
Swaps(chrom1, chrom2) ==
    LET pairs == (DOMAIN chrom1) \X (DOMAIN chrom2)
    IN  {<<p>> : p \in pairs}
        \cup (IF 2 \in SwapCounts
              THEN {s \in {<<p, q>> : p \in pairs, q \in pairs} :
                       s[1][1] # s[2][1] /\ s[1][2] # s[2][2]}
              ELSE {})

RECURSIVE invert_segment(_, _, _)
\* inversion: the loop over enumerate(segment), from the k-th gene on: each
\* round exchanges the genes under segment[k] and under its mirror
invert_segment(chrom, segment, k) ==
    IF k > Len(segment) THEN chrom
    ELSE LET a == segment[k]
             b == segment[Len(segment) + 1 - k]
         IN  invert_segment([chrom EXCEPT ![a] = chrom[b], ![b] = chrom[a]],
                            segment, k + 1)

\* the segments an inversion can draw: 2 to min(len, 5) keys in the order of
\* the dictionary, which for the keys of a set is any order
Segments(chrom) ==
    {s \in UNION {[1..n -> DOMAIN chrom] : n \in 2..Min(Cardinality(DOMAIN chrom), 5)} :
        \A x, y \in 1..Len(s) : x # y => s[x] # s[y]}

\* fusion: the genes of chrom1, then those of chrom2 under other keys
fuse(chrom1, chrom2) ==
    [k \in DOMAIN chrom1 \cup DOMAIN chrom2 |->
        IF k \in DOMAIN chrom1 THEN chrom1[k] ELSE chrom2[k]]

\* list.pop(k)
pop(seq, k) == [x \in 1..(Len(seq) - 1) |-> IF x < k THEN seq[x] ELSE seq[x + 1]]

\* Genome.reproduce: the genomes the chromosomal anomaly of the given type
\* can make of new_genome
apply_anomaly(new_genome, anomaly_type) ==
    IF anomaly_type = "none" \/ Len(new_genome) < 2 THEN {new_genome}
    ELSE UNION {
        LET chrom1 == new_genome[picked[1]]
            chrom2 == new_genome[picked[2]]
        IN  CASE anomaly_type = "translocation" ->
                   {LET swapped == swap_genes(<<chrom1, chrom2>>, swaps, 1,
                                              Len(swaps))
                    IN  [new_genome EXCEPT ![picked[1]] = swapped[1],
                                           ![picked[2]] = swapped[2]] :
                    swaps \in Swaps(chrom1, chrom2)}
              [] anomaly_type = "inversion" ->
                   IF Cardinality(DOMAIN chrom1) >= 3
                   THEN {[new_genome EXCEPT ![picked[1]] =
                             invert_segment(chrom1, segment, 1)] :
                         segment \in Segments(chrom1)}
                   ELSE {new_genome}
              [] OTHER ->
                   IF Len(new_genome) > 2
                   THEN {pop([new_genome EXCEPT ![picked[1]] =
                                 fuse(chrom1, chrom2)], picked[2])}
                   ELSE {new_genome} :
        picked \in {p \in (1..Len(new_genome)) \X (1..Len(new_genome)) :
                    p[1] # p[2]}}

\* Genome.reproduce: the genomes it can return for the given draws
Genome_reproduce(genome1, genome2, deleted, duplicated, anomaly_type, first, hit, value) ==
    LET min_chromosomes == Min(Len(genome1), Len(genome2))
        combined == combine_from(genome1, genome2, 1, min_chromosomes,
                                 deleted, duplicated, first, hit, value)
        extra == extra_chromosomes(IF Len(genome1) > min_chromosomes
                                   THEN genome1 ELSE genome2,
                                   min_chromosomes, hit, value)
        new_genome == combined \o extra
    IN  apply_anomaly(new_genome, anomaly_type)

\* a parent genome, and no call of reproduce yet
InitGenome ==
    /\ \E chromosome_count \in 1..MaxChromosomes, base \in GeneValues,
          mutation_rate \in MutationRates :
         genome = random_genome(chromosome_count, base, mutation_rate)
    /\ child = NoGenome
    /\ drawn = [deleted |-> {}, duplicated |-> {}, anomaly_type |-> "none"]

\* one genome, next to which the rest of the program runs
OneGenome ==
    /\ genome = random_genome(1, 0, 0)
    /\ child = NoGenome
    /\ drawn = [deleted |-> {}, duplicated |-> {}, anomaly_type |-> "none"]

\* Genome.reproduce(genome, genome); chromosome_deletion needs
\* min_chromosomes > 1, each round of the loop draws its own
\* random.randint(0, min_chromosomes - 1) and skips its chromosome when the
\* draw is its index, and the low roll mutates a gene of positive rate only
ReproduceWithItself ==
    /\ child = NoGenome
    /\ \E deleted \in SUBSET (1..Len(genome)),
          duplicated \in SUBSET (1..Len(genome)),
          anomaly_type \in {"none", "translocation", "inversion", "fusion"},
          hit \in {NoGene} \cup UNION {GeneIds(i) : i \in 1..Len(genome)},
          value \in GeneValues :
         /\ deleted # {} => Len(genome) > 1
         /\ duplicated \cap deleted = {}
         /\ hit # NoGene => \E i \in 1..Len(genome) :
                                /\ hit \in DOMAIN genome[i]
                                /\ genome[i][hit].mutation_rate > LowRoll
                                /\ genome[i][hit].value # value
         /\ hit = NoGene => value = 0
         /\ child' \in Genome_reproduce(genome, genome, deleted, duplicated,
                                        anomaly_type, TRUE, hit, value)
         /\ drawn' = [deleted |-> deleted, duplicated |-> duplicated,
                      anomaly_type |-> anomaly_type]
    /\ UNCHANGED genome
    /\ UNCHANGED outsideGenome

NextGenome == ReproduceWithItself

(***************************************************************************)
(* main.py: WorldCell._diffuse_resource on a row of two cells              *)
(***************************************************************************)
\* the cells the diffusion step is run on: forest cells at two altitudes (in
\* tenths) and an ocean cell
Slopes == {<<"FOREST", 2>>, <<"FOREST", 4>>, <<"OCEAN", -6>>}
\* the resources that diffuse
DiffusingResources == {"WATER", "OXYGEN", "CO2"}

\* two generated cells, and no diffusion step yet
InitDiffusion ==
    /\ cells \in [1..World_grid_width ->
                    {WorldCell(t[1], t[2], 0, f) : t \in Slopes, f \in Fills}]
    /\ cellSteps = 0
    /\ diffused = NoDiffusion

\* WorldCell._diffuse_resource of cell c for one resource
DiffuseResource ==
    /\ cellSteps < MaxCellSteps
    /\ \E c \in 1..World_grid_width, resource_type \in DiffusingResources :
         /\ cells' = diffuse_resource(cells, c, resource_type,
                                      get_neighboring_cells(c))
         /\ diffused' = [cell |-> c, resource_type |-> resource_type,
                         before |-> cells]
    /\ cellSteps' = cellSteps + 1
    /\ UNCHANGED outsideCells

NextDiffusion == DiffuseResource

(***************************************************************************)
(* main.py: World._init_adaptation_tables and _calculate_biome_adaptation  *)
(***************************************************************************)
\* BiomeType, in the order of the enumeration
BiomeTypes ==
    <<"OCEAN", "DEEP_OCEAN", "SHALLOW_WATER", "CORAL_REEF", "BEACH",
      "GRASSLAND", "SAVANNA", "FOREST", "RAINFOREST", "SWAMP", "MOUNTAIN",
      "MOUNTAIN_FOREST", "DESERT", "DESERT_HILLS", "TUNDRA", "ICE",
      "VOLCANIC", "RIVER", "LAKE">>

\* Organism.generation of the organism whose adaptation is computed
Generations == {1, 30}
\* the temperature term max(0, 1 - temp_diff / (temp_range * 1.2)), in percent
TempAdaptations == {0, 50, 100}
\* the resource term, in percent: (sunlight + water) / 160 of a plant
\* exceeds 1 on a bright wet cell
ResourceAdaptations == {0, 70, 130}
\* no adaptation was computed yet
NoAdaptation == -1

\* _init_adaptation_tables: _base_adaptation_table, in percent, each row in
\* the order of BiomeTypes
base_adaptation_table ==
    [t \in OrganismTypes |->
        CASE t = "UNICELLULAR" ->
               <<95, 85, 90, 85, 60, 50, 45, 40, 50, 70, 30, 35, 40, 35, 30,
                 25, 40, 85, 80>>
          [] t = "PLANT" ->
               <<40, 20, 70, 60, 60, 95, 85, 90, 95, 80, 50, 70, 40, 35, 30,
                 20, 30, 70, 75>>
          [] t = "HERBIVORE" ->
               <<20, 10, 40, 30, 60, 95, 90, 80, 75, 60, 60, 70, 50, 45, 40,
                 25, 30, 60, 55>>
          [] t = "CARNIVORE" ->
               <<30, 20, 50, 60, 60, 80, 85, 90, 80, 70, 70, 75, 60, 65, 50,
                 40, 40, 60, 55>>
          [] OTHER ->
               <<30, 20, 50, 55, 70, 90, 85, 90, 85, 75, 70, 80, 60, 55, 50,
                 35, 45, 65, 60>>]

\* _calculate_biome_adaptation: max(0.2, min(1.0, final_adaptation))
clamp_adaptation(final_adaptation) == Max(20, Min(100, final_adaptation))

\* the resource term of an organism type: at most 1 for a herbivore, 0.7 for
\* the types other than plant and herbivore
resource_adaptation(org_type, drawn_term) ==
    CASE org_type = "PLANT" -> drawn_term
      [] org_type = "HERBIVORE" -> Min(100, drawn_term)
      [] OTHER -> 70

\* _calculate_biome_adaptation when the value is computed, in percent
calculate_biome_adaptation(a) ==
    LET adaptation == base_adaptation_table[a.org_type][a.biome]
                      + Min(20, a.generation)
        final_adaptation ==
            (adaptation * 60 + a.temp_adaptation * 25
             + resource_adaptation(a.org_type, a.resource_term) * 15) \div 100
    IN  clamp_adaptation(final_adaptation)

\* the arguments of one call of _calculate_biome_adaptation
AdaptationCalls ==
    [org_type : OrganismTypes, biome : 1..Len(BiomeTypes),
     generation : Generations, temp_adaptation : TempAdaptations,
     resource_term : ResourceAdaptations]

\* an organism on a cell, no adaptation computed
InitAdaptation ==
    /\ adaptation_call \in AdaptationCalls
    /\ biome_adaptation = NoAdaptation

\* one organism on one cell, next to which the rest of the program runs
OneAdaptation ==
    /\ adaptation_call = [org_type |-> "PLANT", biome |-> 8, generation |-> 1,
                          temp_adaptation |-> 100, resource_term |-> 70]
    /\ biome_adaptation = NoAdaptation

\* World._calculate_biome_adaptation(organism, cell)
CalculateAdaptation ==
    /\ biome_adaptation = NoAdaptation
    /\ biome_adaptation' = calculate_biome_adaptation(adaptation_call)
    /\ UNCHANGED adaptation_call
    /\ UNCHANGED outsideAdaptation

NextAdaptation == CalculateAdaptation

InitRegistry ==
    /\ species = [s \in RegIds |-> NoRecord]
    /\ speciesKeys = <<>>
    /\ save_file = [exists |-> FALSE, data |-> <<>>]
    /\ savePc = "idle"
    /\ saveBuf = <<>>
    /\ readerView = "none"

RegisterSpeciesCall ==
    \E s \in RegIds, p \in RegIds \cup {NoSpecies} : register_species(s, p)

UpdateSpeciesCall ==
    \E s \in RegIds, n \in (0..MaxPopulation) \cup {-1}, a \in BOOLEAN :
        update_species(s, n, a)

NextRegistry ==
    \/ RegisterSpeciesCall
    \/ UpdateSpeciesCall
    \/ SaveOpen
    \/ SaveDump
    \/ SaveClose
    \/ ReaderRead

InitWorld == \E cap \in 1..MaxCap : NewWorld(cap)

\* what stands idle next to the specification that runs
Idle(running) ==
    /\ IF running = "world" THEN TRUE ELSE NewWorld(MaxCap)
    /\ IF running = "cells" THEN TRUE ELSE OneRow
    /\ IF running = "clones" THEN TRUE ELSE OneFounder
    /\ IF running = "cooldown" THEN TRUE ELSE InitCooldown
    /\ IF running = "caches" THEN TRUE ELSE InitCaches
    /\ IF running = "genome" THEN TRUE ELSE OneGenome
    /\ IF running = "adaptation" THEN TRUE ELSE OneAdaptation
    /\ IF running = "mating" THEN TRUE ELSE InitMating
    /\ IF running = "census" THEN TRUE ELSE InitCensus
    /\ IF running = "decay" THEN TRUE ELSE InitDecay
    /\ IF running = "calendar" THEN TRUE ELSE InitCalendar
    /\ IF running = "lod" THEN TRUE ELSE OneLod
    /\ IF running = "bed" THEN TRUE ELSE OneBed
    /\ InitRegistry
    /\ InitPhysiology

Init == InitWorld /\ Idle("world")

\* the registry and the organism's physiology run next to one world
InitOneWorld == Idle("registry")

SpecRegistry == InitOneWorld /\ [][NextRegistry]_vars

Next ==
    \/ Spawn
    \/ BeginTick
    \/ StepDead
    \/ StepAlive
    \/ Interact
    \/ InteractDone
    \/ EndTick

Spec == Init /\ [][Next]_vars

SpecPhysiology == InitOneWorld /\ [][NextPhysiology]_vars

\* the cells of a generated world under ticks, feedings and deposits
StartCells == InitCells /\ Idle("cells")

SpecCells == StartCells /\ [][NextCells]_vars

\* the diffusion step by itself
StartDiffusion == InitDiffusion /\ Idle("cells")

SpecDiffusion == StartDiffusion /\ [][NextDiffusion]_vars

\* the line of a lone founder
StartClones == InitClones /\ Idle("clones")

SpecClones == StartClones /\ [][NextClones]_vars

\* the cooldown of one organism
StartCooldown == InitCooldown /\ Idle("cooldown")

SpecCooldown == StartCooldown /\ [][NextCooldown]_vars

\* the caches of one world
StartCaches == InitCaches /\ Idle("caches")

SpecCaches == StartCaches /\ [][NextCaches]_vars

\* Genome.reproduce of a genome with itself
StartGenome == InitGenome /\ Idle("genome")

SpecGenome == StartGenome /\ [][NextGenome]_vars

\* the biome adaptation of one organism on one cell
StartAdaptation == InitAdaptation /\ Idle("adaptation")

SpecAdaptation == StartAdaptation /\ [][NextAdaptation]_vars

\* two organisms that can mate
StartMating == InitMating /\ Idle("mating")

SpecMating == StartMating /\ [][NextMating]_vars

\* the species bookkeeping of one world
StartCensus == InitCensus /\ Idle("census")

SpecCensus == StartCensus /\ [][NextCensus]_vars

\* dead organisms in the organism loop
StartDecay == InitDecay /\ Idle("decay")

SpecDecay == StartDecay /\ [][NextDecay]_vars

SpecDecayFair == SpecDecay /\ FairDecay

\* the calendar of one world
StartCalendar == InitCalendar /\ Idle("calendar")

SpecCalendar == StartCalendar /\ [][NextCalendar]_vars

\* the level of detail of one tick
StartLod == InitLod /\ Idle("lod")

SpecLod == StartLod /\ [][NextLod]_vars

\* the plants of a bed under self-pollination and sexual reproduction
StartBed == InitBed /\ Idle("bed")

SpecBed == StartBed /\ [][NextBed]_vars

(***************************************************************************)
(* Properties                                                              *)
(***************************************************************************)
\* the step on which World.update returns to its caller
TickReturns == pc = "loop" /\ pc' = "idle"

\* live organisms of the world's collection whose species_id is s
LiveOrganisms(s) ==
    {i \in 1..Len(world.organisms) :
        /\ org[world.organisms[i]].is_alive
        /\ org[world.organisms[i]].species_id = s}

\* every registry count is the number of live organisms of the species
PopulationMatchesLive ==
    \A s \in 1..MaxIds :
        world.species_registry[s].count = Cardinality(LiveOrganisms(s))

\* C1: after each tick's statistics pass, the population the world's species
\* registry records for every species id equals the number of live organisms
\* of the world whose species_id is that id
C1_PopulationMatchesLive == [][TickReturns => PopulationMatchesLive']_vars

\* C2: with max_organisms = N the world's organism collection holds at most
\* N organisms after every tick
C2_CollectionWithinCap ==
    [][TickReturns => Len(world'.organisms) <= world'.max_organisms]_vars

\* C3: at every moment a species record is marked extinct if and only if its
\* recorded population is 0
C3_ExtinctIffEmpty ==
    \A s \in RegIds :
        species[s].present =>
            (species[s].extinct <=> species[s].population_count = 0)

\* C4: once a species record is marked extinct, no later operation
\* (registration of the same id, population update) clears the mark
C4_ExtinctMarkKept ==
    [][\A s \in RegIds :
          (species[s].present /\ species[s].extinct) =>
              (species'[s].present /\ species'[s].extinct)]_vars

\* C4, witness: an extinct record was registered again and carries a
\* population above 0, the mark still set
C4_Witness ==
    \E s \in RegIds :
        /\ species[s].present
        /\ species[s].extinct
        /\ species[s].population_count > 0

\* the same for the entries of World.species_registry: adding an organism
\* of an extinct species leaves is_extinct set
WorldExtinctMarkKept ==
    [][\A s \in 1..MaxIds :
          world.species_registry[s].is_extinct =>
              world'.species_registry[s].is_extinct]_vars

\* C5: when the only live organism of a species has died and a
\* decomposition step removes it from the world, the world's species
\* registry entry of that species ends with population 0 and marked extinct
C5_DecomposedSpeciesExtinct ==
    [][\A id \in 1..Len(org) :
          (/\ InSeq(id, world.organisms)
           /\ ~org[id].is_alive
           /\ LiveOrganisms(org[id].species_id) = {}
           /\ ~InSeq(id, world'.organisms)
           /\ \A k \in 1..Len(world'.organisms) :
                 org'[world'.organisms[k]].species_id # org[id].species_id)
          => (/\ world'.species_registry[org[id].species_id].count = 0
              /\ world'.species_registry[org[id].species_id].is_extinct)]_vars

\* a radius-0 query at the position of a live organism returns it
LiveOrganismFound ==
    \A i \in 1..Len(world.organisms) :
        LET id == world.organisms[i]
        IN  org[id].is_alive =>
                InSeq(id, SpatialGrid_get_nearby_organisms(
                              world, org, org[id].position, 0))

\* C6: after every tick, a spatial-grid query with radius 0 at the position
\* of any live organism of the world's collection returns that organism
C6_LiveOrganismFound == [][TickReturns => LiveOrganismFound']_vars

\* C7 as stated: every dead organism is in both the world's organism
\* collection and the spatial grid, or in neither
C7_DeadInBothOrNeither ==
    \A id \in 1..Len(org) :
        ~org[id].is_alive =>
            (InSeq(id, world.organisms) <=> InGrid(world, id))

\* C7: no organism, dead or alive, is in the spatial grid without being in
\* the world's organism collection (a dead organism may stay in the
\* collection after a grid rebuild has dropped it)
C7_GridWithinCollection ==
    \A id \in 1..MaxIds : InGrid(world, id) => InSeq(id, world.organisms)

\* C7, witness: a dead organism awaiting decomposition, still in the grid
\* and in the collection
C7_Witness ==
    \E id \in 1..Len(org) :
        /\ ~org[id].is_alive
        /\ InGrid(world, id)
        /\ InSeq(id, world.organisms)

\* C8: no error arising while an organism is processed inside a tick
\* leaves World.update
C8_NoErrorLeavesUpdate == pc # "raised"

\* C9: a reader of the registry file running next to a save never gets a
\* partially written file
C9_ReaderSeesWholeFile == readerView # "torn"

\* C10: for every organism, 0 <= health <= 100 and 0 <= energy <=
\* phenotype.energy_capacity after any sequence of updates, attacks,
\* selection-pressure steps and reproductions
C10_HealthEnergyInRange ==
    subject # NoSubject =>
        /\ 0 <= subject.health /\ subject.health <= 100
        /\ 0 <= subject.energy /\ subject.energy <= EnergyCapacity

\* C11: for every cell and every resource, the stored value stays within
\* [0, capacity of that resource in that cell] after any sequence of
\* ticks, organism interactions, diffusion steps and decomposition deposits
C11_ResourcesWithinCapacity ==
    \A c \in 1..World_grid_width, r \in ResourceTypes :
        /\ 0 <= cells[c].resources[r]
        /\ cells[c].resources[r] <= cells[c].resource_capacity[r]

\* the largest generation among the organisms of parent_ids
MaxParentGeneration(o) ==
    CHOOSE g \in {org[o.parent_ids[k]].generation : k \in 1..Len(o.parent_ids)} :
        \A k \in 1..Len(o.parent_ids) : org[o.parent_ids[k]].generation <= g

\* C12: every offspring produced by any reproduction path (conjugation,
\* asexual division, self-pollination, sexual reproduction) has generation
\* equal to the maximum of the generations of all organisms listed as its
\* parents, plus 1
C12_GenerationAboveParents ==
    \A i \in 1..Len(org) :
        org[i].parent_ids # <<>>
            => org[i].generation = MaxParentGeneration(org[i]) + 1

RECURSIVE Unmutated(_)
\* no significant mutation between the founder and organism i of the line
Unmutated(i) ==
    /\ lineage[i].mutation_count = 0
    /\ lineage[i].parent_ids # <<>> => Unmutated(lineage[i].parent_ids[1])

\* C14: with every mutation rate set to 0, every offspring produced by
\* asexual division from a lone unicellular founder has the same species_id
\* as the founder
C14_ClonesKeepSpecies ==
    \A i \in 2..Len(lineage) :
        Unmutated(i) => lineage[i].species_id = lineage[1].species_id

\* C15: after a reproduction sets an organism's reproduction_cooldown to c,
\* the cooldown reaches 0 after exactly c/dt world ticks of step dt and is
\* strictly positive on every earlier tick
C15_CooldownLastsTicks ==
    cooldown_set > 0 =>
        /\ ticks_since * DeltaTime < cooldown_set
                => breeder.reproduction_cooldown > 0
        /\ ticks_since * DeltaTime = cooldown_set
                => breeder.reproduction_cooldown = 0

\* C15, amended: the cooldown is 0 from the first update of the organism at
\* which the updates since the reproduction, times dt, reach c, and strictly
\* positive before; a tick in which the organism is dead or outside the
\* updated subset is not an update
C15_CooldownLastsUpdates ==
    cooldown_set > 0 =>
        (breeder.reproduction_cooldown = 0
            <=> updates_since * DeltaTime >= cooldown_set)

\* a cooldown of 24 run down by five updates of step 5
C15_Witness ==
    /\ cooldown_set = 24
    /\ updates_since = 5
    /\ breeder.reproduction_cooldown = 0

RatesAllZero ==
    \A i \in 1..Len(genome) :
        \A k \in DOMAIN genome[i] : genome[i][k].mutation_rate = 0

\* C17: Genome.reproduce(a, a), when every gene of a has mutation rate 0,
\* returns a genome with the same number of chromosomes as a and, chromosome
\* by chromosome, the same gene ids with equal field values
C17_SelfReproductionCopies ==
    (child # NoGenome /\ RatesAllZero) => child = genome

\* C17, amended: with every mutation rate 0 each gene of the returned genome
\* is equal, field by field, to the gene of a with the same gene id, and the
\* returned genome equals a when no chromosome is deleted or duplicated and
\* no translocation or fusion is drawn
C17_SelfReproductionKeepsGenes ==
    (child # NoGenome /\ RatesAllZero) =>
        /\ \A i \in 1..Len(child) : \A k \in DOMAIN child[i] :
               \E x \in 1..Len(genome) :
                   /\ child[i][k].gene_id \in DOMAIN genome[x]
                   /\ child[i][k] = genome[x][child[i][k].gene_id]
        /\ (/\ drawn.deleted = {}
            /\ drawn.duplicated = {}
            /\ drawn.anomaly_type \in {"none", "inversion"})
               => child = genome

\* a genome of three chromosomes of rate 0 copied with an inversion drawn
C17_Witness ==
    /\ RatesAllZero
    /\ Len(genome) = 3
    /\ child = genome
    /\ drawn.anomaly_type = "inversion"

\* the resource of the last diffusion step had the same value in its cell
\* and in the neighbour n before the step
SameValueBefore(n) ==
    diffused.before[diffused.cell].resources[diffused.resource_type]
        = diffused.before[n].resources[diffused.resource_type]

\* the last diffusion step changed the resource neither in its cell nor in
\* the neighbour n
NeitherChanged(n) ==
    \A x \in {diffused.cell, n} :
        cells[x].resources[diffused.resource_type]
            = diffused.before[x].resources[diffused.resource_type]

\* C18: running the diffusion step for a resource between two neighbouring
\* cells that hold identical values of that resource changes the value in
\* neither cell
C18_EqualValuesNoFlow ==
    diffused # NoDiffusion =>
        \A k \in 1..Len(get_neighboring_cells(diffused.cell)) :
            LET n == get_neighboring_cells(diffused.cell)[k]
            IN  SameValueBefore(n) => NeitherChanged(n)

\* C18, amended: the step changes neither value when the resource is oxygen
\* or CO2, or when it is water and the cell running the step lies no higher
\* than the neighbour
C18_EqualValuesNoFlowOnLevelGround ==
    diffused # NoDiffusion =>
        \A k \in 1..Len(get_neighboring_cells(diffused.cell)) :
            LET n == get_neighboring_cells(diffused.cell)[k]
            IN  (/\ SameValueBefore(n)
                 /\ \/ diffused.resource_type # "WATER"
                    \/ diffused.before[diffused.cell].altitude
                           <= diffused.before[n].altitude)
                    => NeitherChanged(n)

\* a water step of the lower of two forest cells holding the same water
C18_Witness ==
    /\ diffused.resource_type = "WATER"
    /\ diffused.cell = 1
    /\ SameValueBefore(2)
    /\ diffused.before[1].resources["WATER"] > 0
    /\ diffused.before[1].altitude < diffused.before[2].altitude
    /\ NeitherChanged(2)

\* the base value of the table for the pair of the call
BaseValue == base_adaptation_table[adaptation_call.org_type][adaptation_call.biome]

\* C19: for every (organism type, biome) pair, the fixed base value in the
\* biome-adaptation lookup table lies in [0.2, 1.0]
C19_BaseValueInRange == 20 <= BaseValue /\ BaseValue <= 100

\* the number of times the loop variable of the tick has taken organism id
TimesProcessed(id) == Cardinality({k \in 1..Len(processed) : processed[k] = id})

\* C20: in a tick whose update_ratio is 1.0, every organism that is in the
\* world's collection when the organism loop starts is processed exactly once
\* in that tick, even when organisms are added to or removed from the
\* collection during the loop. Stated for the organisms that are still in
\* the collection when the loop ends, and at most once for the others; the
\* worlds of the model stay below the first LOD threshold
C20_EveryOrganismProcessedOnce ==
    (pc = "loop" /\ idx >= Len(world.organisms)) =>
        \A k \in 1..Len(loop_start) :
            /\ TimesProcessed(loop_start[k]) <= 1
            /\ InSeq(loop_start[k], world.organisms)
                   => TimesProcessed(loop_start[k]) = 1

\* C21: no organism produces an offspring, as initiator or as mate, while
\* its reproduction_cooldown is greater than 0: every parent of an offspring
\* of the last loop body had a cooldown of 0 when try_reproduce was called
C21_NoOffspringDuringCooldown ==
    \A k \in 1..Len(births) : births[k].reproduction_cooldown = 0

\* C22: an organism whose is_alive is false never becomes a parent of a new
\* offspring: on every step that adds organisms, each parent of each new
\* organism is alive as the reproduction leaves it
C22_DeadNeverParent ==
    [][\A k \in (Len(org) + 1)..Len(org') :
          \A i \in 1..Len(org'[k].parent_ids) :
              org'[org'[k].parent_ids[i]].is_alive]_vars

\* the entries of World.species_registry marked extinct
ExtinctEntries ==
    {s \in DOMAIN biosphere.species_registry :
        /\ biosphere.species_registry[s].present
        /\ biosphere.species_registry[s].is_extinct}

\* C23: the world's extinction_count always equals the number of species
\* entries of the world's registry that are marked extinct
C23_ExtinctionCountMatchesRegistry ==
    biosphere.extinction_count = Cardinality(ExtinctEntries)

\* the dead organism id is retained in the world's collection
Retained(id) == ~herd.is_alive[id] /\ InSeq(id, herd.organisms)

\* C24: every dead organism retained in the world's collection is eventually
\* decomposed and removed from the collection, provided ticks keep running
\* and the draws of the ticks are fair
C24_DeadEventuallyRemoved ==
    \A id \in 1..MaxHerd : Retained(id) ~> ~InSeq(id, herd.organisms)

\* a dead organism has left the collection while a live one is still in it
C24_Witness ==
    \E id \in 1..herd.born :
        /\ ~herd.is_alive[id]
        /\ ~InSeq(id, herd.organisms)
        /\ \E other \in 1..herd.born :
             herd.is_alive[other] /\ InSeq(other, herd.organisms)

\* C25: after any sequence of ticks, the world's year counter equals its
\* initial value (0) plus the number of times year_cycle has wrapped
C25_YearCountsWraps == calendar.year = elapsed.wraps

\* C26: whenever a tick changes the world's season, a season-change
\* milestone is emitted during that same tick
C26_SeasonChangeEmitsMilestone ==
    [][calendar'.season # calendar.season
          => calendar'.season_changes > calendar.season_changes]_vars

\* the schedule as stated, in percent
StatedRatio(n) ==
    IF n <= 5000 THEN 100
    ELSE IF n <= 10000 THEN 50
    ELSE IF n <= 15000 THEN 25
    ELSE 10

\* C27: the per-tick update_ratio is 1.0 when the organism count is at most
\* 5000, 0.5 when it is above 5000 and at most 10000, 0.25 when it is above
\* 10000 and at most 15000, and 0.1 when it is above 15000
C27_UpdateRatioSchedule ==
    lod.update_ratio # NoRatio
        => lod.update_ratio = StatedRatio(lod.organism_count)

\* C28: when the chromosome-deletion event of Genome.reproduce fires, exactly
\* one chromosome is dropped: a call that drops a chromosome, which only the
\* event makes it do, drops one, and without duplication and without fusion
\* the offspring of a genome with itself has one chromosome less than the
\* genome
C28_DeletionDropsOne ==
    (child # NoGenome /\ drawn.deleted # {})
        => /\ Cardinality(drawn.deleted) = 1
           /\ (drawn.duplicated = {} /\ drawn.anomaly_type # "fusion")
                  => Len(child) = Len(genome) - 1
\* C29: the phenotype of an organism is written only by being calculated
\* from the organism's genome: every trait of every plant has the value
\* Phenotype calculates from the plant's genome
C29_PhenotypeDerivedFromGenome ==
    \A i \in 1..Len(bed) : bed[i].phenotype = Phenotype(bed[i].genome)

\* the value of a trait calculated from the genome of plant i
derived(i, trait) == Phenotype(bed[i].genome)[trait]

\* C29, amended: the genome and the phenotype of a plant never change once
\* the reproduction that made it has returned, and every trait has the value
\* calculated from the genome, but for the offspring born with inbreeding:
\* one of a self-pollination with depression d has strength and
\* metabolism_rate times max(0.7, 1 - d) and fertility times
\* max(0.6, 1 - 1.5 d), and one of a sexual reproduction with risk r has
\* strength, metabolism_rate and immune_strength times w = 1 - 0.6 r and
\* fertility times max(0.5, w - 0.1)
C29_PhenotypeDerivedButInbreeding ==
    /\ [](\A i \in 1..Len(bed) :
            LET by == bed[i].inbreeding.by
                amount == bed[i].inbreeding.amount
                d == Max(700, 1000 - amount)
                w == 1000 - (amount * 6) \div 10
            IN  CASE by = "self_pollination" ->
                       /\ amount > 0
                       /\ bed[i].phenotype.strength
                              = (derived(i, "strength") * d) \div 1000
                       /\ bed[i].phenotype.metabolism_rate
                              = (derived(i, "metabolism_rate") * d) \div 1000
                       /\ bed[i].phenotype.fertility
                              = (derived(i, "fertility")
                                    * Max(600, 1000 - (amount * 3) \div 2))
                                \div 1000
                       /\ bed[i].phenotype.immune_strength
                              = derived(i, "immune_strength")
                  [] by = "sexual_reproduction" ->
                       /\ amount > 0
                       /\ bed[i].phenotype.strength
                              = (derived(i, "strength") * w) \div 1000
                       /\ bed[i].phenotype.metabolism_rate
                              = (derived(i, "metabolism_rate") * w) \div 1000
                       /\ bed[i].phenotype.immune_strength
                              = (derived(i, "immune_strength") * w) \div 1000
                       /\ bed[i].phenotype.fertility
                              = (derived(i, "fertility") * Max(500, w - 100))
                                \div 1000
                  [] OTHER -> bed[i].phenotype = Phenotype(bed[i].genome))
    /\ [][\A i \in 1..Len(bed) :
             /\ bed'[i].genome = bed[i].genome
             /\ bed'[i].phenotype = bed[i].phenotype
             /\ bed'[i].inbreeding = bed[i].inbreeding]_vars

\* a bed with an offspring of each reproduction born with inbreeding
C29_Witness ==
    /\ \E i \in 1..Len(bed) : bed[i].inbreeding.by = "self_pollination"
    /\ \E i \in 1..Len(bed) : bed[i].inbreeding.by = "sexual_reproduction"
\* C30: in every chromosome of every genome each key of the gene mapping maps
\* to a gene whose gene_id is that key, after reproductions with their
\* translocations, inversions and fusions: so it is in the parent genome and
\* in the genome Genome.reproduce returns
C30_KeysAreGeneIds ==
    /\ \A i \in 1..Len(genome) :
           \A k \in DOMAIN genome[i] : genome[i][k].gene_id = k
    /\ child # NoGenome =>
           \A i \in 1..Len(child) :
               \A k \in DOMAIN child[i] : child[i][k].gene_id = k
====
